---- MODULE Spec2Model ----
(***************************************************************************)
(* Signaling / reconnection core of the screen-mirroring repository.       *)
(*                                                                         *)
(*   SpecClient   - SignalingClient of rtc-signal/shared/signaling.js      *)
(*                  driven by its owner (connect, close), by its           *)
(*                  WebSockets (open, error, close) and by its timers.     *)
(*   SpecBackoff  - the same client constructed with every backoff option. *)
(*   SpecElectron - the Electron ScreenSender with its built-in signaling  *)
(*                  client, with the passing of time (its timers carry     *)
(*                  the milliseconds they still have to wait).             *)
(*   SpecSender   - ScreenSender of sender/webrtc-sender.js owning a       *)
(*                  SignalingClient made by the shared wrapper.            *)
(*   SpecReceiver - the ScreenReceiver component owning the receiver       *)
(*                  app's copy of the client and wrapper.                  *)
(*   SpecSend     - the SignalingClient whose owner connects once and      *)
(*                  calls send().                                          *)
(*   SpecRelay    - the relay server: its room map under connections,      *)
(*                  join and signal frames and close events.               *)
(*   SpecPath     - the two room members, their WebSockets taken as FIFO   *)
(*                  connections, and the relay between them.               *)
(*   SpecHeartbeat - the relay with its 30 s sweep: pings, pongs and the   *)
(*                  termination of connections that did not answer.        *)
(*   SpecStatus   - the sender's status callbacks handed the events of     *)
(*                  the control channel.                                   *)
(*   SpecReentrant - the SignalingClient under an owner whose callbacks    *)
(*                  call connect() or close().                             *)
(*   SpecRecovery - SpecPath where a member replaces its connection while  *)
(*                  its peer keeps its own.                                *)
(*   SpecClientFair - SpecClient whose pending timers expire.              *)
(*   SpecNoRetry  - the client constructed with maxRetries 0.              *)
(*                                                                         *)
(* Every specification starts with the other components idle and leaves    *)
(* their variables unchanged.                                              *)
(*                                                                         *)
(* Delays are in milliseconds.  A WebSocket is "CONNECTING", "OPEN",       *)
(* "CLOSING" (readyState is no longer OPEN, the close event is still to    *)
(* come: after ws.close(), after an error event, or once the closing       *)
(* handshake has started) or "CLOSED" (close event delivered).             *)
(***************************************************************************)
EXTENDS Integers, Sequences, FiniteSets, TLC

(* ---------------------------- bounds ----------------------------------- *)
\* number of `new WebSocket(url)` evaluations one client instance may make
MaxSockets == 4

(* ------------------------ program constants ---------------------------- *)
Undefined == -1            \* an option the owner did not pass
Null == 0                  \* this.ws = null
Infinity == 1000000000
DefaultInitialRetryDelay == 1000
DefaultMaxRetryDelay == 30000
DefaultRetryMultiplier == 2
ResetRetryDelay == 1000
\* Math.random() * 1000 lies in [0, 1000): the two ends of the range
Jitters == {0, 999}

\* the option values the owner may construct the client with
InitialRetryDelayOpts == {Undefined, 500, 40000}
MaxRetryDelayOpts == {Undefined, 2500}
RetryMultiplierOpts == {Undefined, 3}
MaxRetriesOpts == {Undefined, 1, 2}

SocketIds == 1..MaxSockets
\* every open event creates at most two peer connections
PcIds == 1..(2 * MaxSockets)
\* signal messages the relay delivers to the receiver
MaxSignals == 2
\* signal frames the sender writes
MaxOffers == 2
\* events of the control channel handed to the sender's callbacks, and the
\* attempt numbers they carry
MaxEvents == 3
MaxAttemptShown == 2
\* sendSignal calls the receiver component makes
MaxSendSignals == 1
\* send() calls the owner of a SignalingClient makes
MaxSends == 2
NoMessage == [type |-> "none"]
SenderRoom == "default-room"
ReceiverRoles == {"answerer", "Receiver"}
ReceiverRooms == {"living-room"}

\* Electron sender: WebSockets its built-in client may create, stop() calls
MaxElectronSockets == 7
MaxStops == 2
ElectronSocketIds == 1..MaxElectronSockets
maxReconnectAttempts == 10
InitialReconnectDelay == 1000
MaxReconnectDelay == 30000
StopResetDelay == 1000
\* the step of the clock: every delay is a multiple of the initial delay
TickMs == InitialReconnectDelay

\* connections the relay accepts
MaxConns == 2
\* the relay's connection objects: MaxConns of them, and one more where a
\* room member replaces its connection while its peer stays connected
ConnIds == 1..(MaxConns + 1)
RelayRooms == {"R1", "R2"}
\* `entry.offerer` and `entry.answerer`, the keys the relay names
FixedRoles == {"offerer", "answerer"}
\* values a join message may carry as `role`
RoleKeys == FixedRoles \cup {"viewer"}
\* send() calls the two room members make together
MaxCalls == 2
\* values a caller passes as the payload of a signal: <<"number", n>>,
\* <<"NaN">>, <<"null">>, <<"undefined">>; the `data` member of a frame is
\* <<"num", n>>, <<"null">> or, when the frame has no such member,
\* <<"absent">>
Absent == <<"absent">>
\* `data` members of the frames the relay is sent
WireData == {<<"num", 1>>, <<"num", 2>>}

VARIABLES
  options,       \* the options object given to the constructor
  sc,            \* the SignalingClient instance (its fields)
  sockets,       \* readyState of every WebSocket the instance created
  timers,        \* delays of the pending setTimeout callbacks
  sent,          \* messages handed to ws.send, per WebSocket, in order
  emitted,       \* owner callbacks invoked by the last step, in order
  lastOp,        \* the operation the last step performed
  attempts,      \* number of `new WebSocket` evaluations so far
  userConnects,  \* connect() calls made by the owner (2 = two or more)
  everOpened,    \* some WebSocket of the instance has opened
  exhausted,     \* number of onMaxRetriesReached calls so far
  delays,        \* delays handed to setTimeout since the last open
  closedPending, \* close() was called while a timer was pending
  autoAfterClose, \* WebSockets created by a timer callback after close()
  sends,         \* send() calls made by the owner; call n passes message n
  rejected       \* messages for which send() returned false

clientVars == <<options, sc, sockets, timers, sent, emitted, lastOp, attempts,
                userConnects, everOpened, exhausted, delays, closedPending,
                autoAfterClose, sends, rejected>>

VARIABLES
  e_signalingClient,  \* ScreenSender.signalingClient is set
  e_ws,               \* `ws` of the built-in client's closure
  reconnectAttempts,
  reconnectDelay,
  isStopping,         \* ScreenSender.isStopping (undefined counts as FALSE)
  e_pc,               \* ScreenSender.pc: Null or the number of the connection
  e_pcs,              \* RTCPeerConnections created so far
  e_sockets,          \* readyState of the WebSockets of the built-in client
  e_timers,           \* pending timers in registration order
  e_lastOp,
  e_started,          \* start() was called
  e_stops,            \* stop() calls so far
  stopPending,        \* delay of the reconnect timer pending at stop(), or 0
  createdAfterStop,   \* WebSockets created after such a stop()
  e_delays            \* delays of the reconnect timers set since the last open

electronVars == <<e_signalingClient, e_ws, reconnectAttempts, reconnectDelay,
                  isStopping, e_pc, e_pcs, e_sockets, e_timers, e_lastOp,
                  e_started, e_stops, stopPending, createdAfterStop,
                  e_delays>>

VARIABLES
  ss,         \* the ScreenSender instance: signalingClient set, pc, status
  s_pcs,      \* state of every RTCPeerConnection the sender created
  s_started,  \* start() was called
  s_opens,    \* per WebSocket: peer connections created before and after
              \* its open event was handled
  s_applied,  \* <<socket, pc>>: a payload received on socket was applied to pc
  s_stopped   \* stop() has returned; the frames sent and payloads applied
              \* by then

senderVars == <<ss, s_pcs, s_started, s_opens, s_applied, s_stopped>>

VARIABLES
  r_opts,     \* role and room given to the receiver's createWebRTCSignaling
  rr,         \* the ScreenReceiver component: client ref set, pc ref, status
  r_mounted,  \* the mount effect has run connect()
  r_log,      \* per WebSocket: reconnected events, joins sent and payloads
              \* forwarded to onSignal, in order
  r_firstJoin, \* the first join message the client sent
  r_signals,  \* signal messages delivered so far
  r_opens,    \* as s_opens
  r_applied   \* as s_applied

receiverVars == <<r_opts, rr, r_mounted, r_log, r_firstJoin, r_signals,
                  r_opens, r_applied>>

VARIABLES
  s_events,   \* control-channel events handed to the sender's callbacks
  s_reports   \* per such event: the <<status, data>> pairs the sender then
              \* passed to the application's onStatusChange

statusVars == <<s_events, s_reports>>

VARIABLES
  r_calls     \* per sendSignal call of the component: whether the WebSocket
              \* was open, the frames written and the statuses reported

receiverCallVars == <<r_calls>>

VARIABLES
  rooms,        \* the relay's Map: room id -> entry (role key -> connection)
  conns,        \* readyState of every connection the relay has accepted
  outbox,       \* frames the last step handed to target.send, per connection
  isAlive,      \* ws.isAlive of every connection
  relayUp,      \* the relay process is running
  wasFull,      \* rooms of the map that have had both roles occupied
  relayLast     \* what the last step did: the connection its join took a
                \* slot from, and the once-full rooms it deleted

relayVars == <<rooms, conns, isAlive, outbox, relayUp, wasFull, relayLast>>

VARIABLES
  pings,     \* per connection: a ping of the sweep the peer has not answered
  mute,      \* connections whose peer has stopped answering pings
  reaped     \* connections the sweep has terminated

heartVars == <<pings, mute, reaped>>

VARIABLES
  link,    \* per room member: the relay connection its open WebSocket is
  up,      \* per connection: frames on their way to the relay, in order
  down,    \* per connection: frames on their way to the member, in order
  gone,    \* connections whose member has closed or lost the WebSocket
  called,  \* per send() call of a payload: the caller and the connection
           \* the frame was written to (Null when send() returned false)
  got,     \* per room member: the payloads passed to its onSignal, in order
  lost,    \* per room member: the connections it had and lost
  unjoined \* connections lost before the relay had received their join

pathVars == <<link, up, down, gone, called, got, lost, unjoined>>

notClientVars == <<electronVars, senderVars, receiverVars, relayVars,
                   pathVars, heartVars, receiverCallVars,
   statusVars>>

notElectronVars == <<clientVars, senderVars, receiverVars, relayVars,
                     pathVars, heartVars, receiverCallVars,
   statusVars>>

notSenderVars == <<electronVars, receiverVars, relayVars, pathVars,
                   heartVars, receiverCallVars,
   statusVars>>

notReceiverVars == <<electronVars, senderVars, relayVars, pathVars,
                     heartVars, receiverCallVars,
   statusVars>>

notRelayVars == <<clientVars, electronVars, senderVars, receiverVars,
                  pathVars, heartVars, receiverCallVars,
   statusVars>>

notPathVars == <<clientVars, electronVars, senderVars, receiverVars,
                 heartVars, receiverCallVars,
   statusVars>>

notHeartVars == <<clientVars, electronVars, senderVars, receiverVars, pathVars,
                  receiverCallVars, statusVars>>

vars == <<clientVars, electronVars, senderVars, receiverVars, relayVars,
          pathVars, heartVars, receiverCallVars,
   statusVars>>

(* ----------------------------- helpers --------------------------------- *)
Min(a, b) == IF a <= b THEN a ELSE b

\* JavaScript `v || d` on a number that may be absent
OrDefault(v, d) == IF v = Undefined \/ v = 0 THEN d ELSE v

Emit(w, ev) == [w EXCEPT !.emitted = Append(@, ev)]

Live(st) == st \in {"CONNECTING", "OPEN"}

LiveSockets(socks) == {s \in SocketIds : Live(socks[s])}

NextSocket(socks) == Cardinality({s \in SocketIds : socks[s] # "NONE"}) + 1

(* ------------------------- SignalingClient ----------------------------- *)
SignalingClient(opts) ==
  [ws |-> Null,
   retryDelay |-> OrDefault(opts.initialRetryDelay, DefaultInitialRetryDelay),
   maxRetryDelay |-> OrDefault(opts.maxRetryDelay, DefaultMaxRetryDelay),
   retryMultiplier |-> OrDefault(opts.retryMultiplier, DefaultRetryMultiplier),
   maxRetries |-> OrDefault(opts.maxRetries, Infinity),
   retryCount |-> 0,
   isConnecting |-> FALSE,
   shouldReconnect |-> TRUE]

\* the part of the state the client's methods read and write
World == [sc |-> sc, sockets |-> sockets, timers |-> timers, sent |-> sent,
          emitted |-> <<>>, attempts |-> attempts]

\* scheduleReconnect giving up one retry late (> for >=)
scheduleReconnectLate(w, jitter) ==
  IF w.sc.retryCount > w.sc.maxRetries
  THEN Emit(w, <<"onMaxRetriesReached">>)
  ELSE LET n == w.sc.retryCount + 1
           d == w.sc.retryDelay
           w1 == [w EXCEPT !.sc.retryCount = n]
           w2 == Emit(w1, <<"onReconnecting", n, d>>)
           w3 == [w2 EXCEPT !.timers = Append(@, d)]
       IN [w3 EXCEPT !.sc.retryDelay =
                        Min(d * w.sc.retryMultiplier + jitter,
                            w.sc.maxRetryDelay)]

\* scheduleReconnect announcing the retry before it counts it
scheduleReconnectAnnounceFirst(w, jitter) ==
  IF w.sc.retryCount >= w.sc.maxRetries
  THEN Emit(w, <<"onMaxRetriesReached">>)
  ELSE LET n == w.sc.retryCount + 1
           d == w.sc.retryDelay
           w1 == Emit(w, <<"onReconnecting", w.sc.retryCount, d>>)
           w2 == [w1 EXCEPT !.sc.retryCount = n]
           w3 == [w2 EXCEPT !.timers = Append(@, d)]
       IN [w3 EXCEPT !.sc.retryDelay =
                        Min(d * w.sc.retryMultiplier + jitter,
                            w.sc.maxRetryDelay)]

scheduleReconnect(w, jitter) ==
  IF w.sc.retryCount >= w.sc.maxRetries
  THEN Emit(w, <<"onMaxRetriesReached">>)
  ELSE LET n == w.sc.retryCount + 1
           d == w.sc.retryDelay
           w1 == [w EXCEPT !.sc.retryCount = n]
           w2 == Emit(w1, <<"onReconnecting", n, d>>)
           w3 == [w2 EXCEPT !.timers = Append(@, d)]
       IN [w3 EXCEPT !.sc.retryDelay =
                        Min(d * w.sc.retryMultiplier + jitter,
                            w.sc.maxRetryDelay)]

isConnected(w) == w.sc.ws # Null /\ w.sockets[w.sc.ws] = "OPEN"

\* connect() whose catch block reports the error and schedules nothing
connectSilentThrow(w, throws, jitter) ==
  IF w.sc.isConnecting \/ isConnected(w)
  THEN w
  ELSE IF throws
  THEN Emit([w EXCEPT !.sc.isConnecting = FALSE, !.attempts = @ + 1],
            <<"onError">>)
  ELSE LET s == NextSocket(w.sockets)
       IN [w EXCEPT !.sc.isConnecting = TRUE,
                    !.sc.ws = s,
                    !.sockets[s] = "CONNECTING",
                    !.attempts = @ + 1]

connect(w, throws, jitter) ==
  IF w.sc.isConnecting \/ isConnected(w)
  THEN w
  ELSE IF throws
  THEN LET w1 == [w EXCEPT !.sc.isConnecting = FALSE,
                           !.attempts = @ + 1]
           w2 == Emit(w1, <<"onError">>)
       IN IF w2.sc.shouldReconnect THEN scheduleReconnect(w2, jitter) ELSE w2
  ELSE LET s == NextSocket(w.sockets)
       IN [w EXCEPT !.sc.isConnecting = TRUE,
                    !.sc.ws = s,
                    !.sockets[s] = "CONNECTING",
                    !.attempts = @ + 1]

onopen(w, s) ==
  LET w1 == [w EXCEPT !.sockets[s] = "OPEN",
                      !.sc.isConnecting = FALSE,
                      !.sc.retryDelay = ResetRetryDelay,
                      !.sc.retryCount = 0]
      w2 == IF w1.sc.retryCount > 0 THEN Emit(w1, <<"onReconnected">>) ELSE w1
  IN Emit(w2, <<"onOpen">>)

onclose(w, s, jitter) ==
  LET w1 == [w EXCEPT !.sockets[s] = "CLOSED",
                      !.sc.isConnecting = FALSE]
      w2 == Emit(w1, <<"onClose">>)
  IN IF w2.sc.shouldReconnect THEN scheduleReconnect(w2, jitter) ELSE w2

\* onerror that also schedules a reconnect
onerrorReconnect(w, s) ==
  LET w1 == [w EXCEPT !.sockets[s] = "CLOSING",
                      !.sc.isConnecting = FALSE]
      w2 == Emit(w1, <<"onError">>)
  IN IF w2.sc.shouldReconnect THEN scheduleReconnect(w2, 0) ELSE w2

onerror(w, s) ==
  LET w1 == [w EXCEPT !.sockets[s] = "CLOSING",
                      !.sc.isConnecting = FALSE]
  IN Emit(w1, <<"onError">>)

\* the timer callback without the re-check of the flag
timerCallbackUnchecked(w, throws, jitter) == connect(w, throws, jitter)

timerCallback(w, throws, jitter) ==
  IF w.sc.shouldReconnect THEN connect(w, throws, jitter) ELSE w

\* send() that hands the message to the WebSocket whatever its readyState
sendAnyState(w, msg) ==
  IF w.sc.ws # Null
  THEN [w EXCEPT !.sent[w.sc.ws] = Append(@, msg)]
  ELSE w

send(w, msg) ==
  IF isConnected(w)
  THEN [w EXCEPT !.sent[w.sc.ws] = Append(@, msg)]
  ELSE w

\* what send() returns
sendReturns(w) == isConnected(w)

close(w) ==
  LET w1 == [w EXCEPT !.sc.shouldReconnect = FALSE]
  IN IF w1.sc.ws # Null
     THEN [w1 EXCEPT !.sockets[w.sc.ws] =
                        IF Live(@) THEN "CLOSING" ELSE @,
                     !.sc.ws = Null]
     ELSE w1

(* ------------------------------ steps ---------------------------------- *)
Count(seq, name) == Cardinality({i \in 1..Len(seq) : seq[i][1] = name})

RemoveAt(seq, i) == SubSeq(seq, 1, i - 1) \o SubSeq(seq, i + 1, Len(seq))

\* the state after a step of the client that took World to w
Commit(w, op) ==
  /\ sc' = w.sc
  /\ sockets' = w.sockets
  /\ timers' = w.timers
  /\ sent' = w.sent
  /\ emitted' = w.emitted
  /\ attempts' = w.attempts
  /\ lastOp' = op
  /\ options' = options
  /\ userConnects' = IF op = "connect" THEN Min(userConnects + 1, 2)
                     ELSE userConnects
  /\ everOpened' = (everOpened \/ op = "open")
  /\ exhausted' = Min(exhausted + Count(w.emitted, "onMaxRetriesReached"), 2)
  /\ delays' = IF op = "open" THEN <<>>
               ELSE IF Count(w.emitted, "onReconnecting") > 0
               THEN Append(delays, w.timers[Len(w.timers)])
               ELSE delays
  /\ closedPending' = (closedPending \/ (op = "close" /\ timers # <<>>))
  /\ autoAfterClose' = IF op = "timer" /\ closedPending
                       THEN autoAfterClose + (w.attempts - attempts)
                       ELSE autoAfterClose
  /\ sends' = IF op \in {"sendTrue", "sendFalse"} THEN sends + 1 ELSE sends
  /\ rejected' = IF op = "sendFalse" THEN rejected \cup {sends + 1}
                 ELSE rejected

UserConnect ==
  /\ UNCHANGED notClientVars
  /\ attempts < MaxSockets
  /\ \E throws \in BOOLEAN, jitter \in Jitters :
       Commit(connect(World, throws, jitter), "connect")

UserClose ==
  /\ UNCHANGED notClientVars
  /\ Commit(close(World), "close")

UserSend ==
  /\ UNCHANGED notClientVars
  /\ sends < MaxSends
  /\ Commit(send(World, sends + 1),
            IF sendReturns(World) THEN "sendTrue" ELSE "sendFalse")

TimerFire ==
  /\ UNCHANGED notClientVars
  /\ attempts < MaxSockets
  /\ \E i \in 1..Len(timers), throws \in BOOLEAN, jitter \in Jitters :
       Commit(timerCallback([World EXCEPT !.timers = RemoveAt(@, i)],
                            throws, jitter), "timer")

TransportOpen ==
  \E s \in SocketIds :
    /\ UNCHANGED notClientVars
    /\ sockets[s] = "CONNECTING"
    /\ Commit(onopen(World, s), "open")

TransportError ==
  \E s \in SocketIds :
    /\ UNCHANGED notClientVars
    /\ Live(sockets[s])
    /\ Commit(onerror(World, s), "error")

TransportClosing ==
  \E s \in SocketIds :
    /\ UNCHANGED notClientVars
    /\ sockets[s] = "OPEN"
    /\ Commit([World EXCEPT !.sockets[s] = "CLOSING"], "closing")

TransportClose ==
  \E s \in SocketIds, jitter \in Jitters :
    /\ UNCHANGED notClientVars
    /\ sockets[s] \in {"CONNECTING", "OPEN", "CLOSING"}
    /\ Commit(onclose(World, s, jitter), "closeEvent")

\* the client right after `new SignalingClient(url, opts)`, opts in optSet
ClientConstructed(optSet) ==
  /\ options \in optSet
  /\ sc = SignalingClient(options)
  /\ sockets = [s \in SocketIds |-> "NONE"]
  /\ timers = <<>>
  /\ sent = [s \in SocketIds |-> <<>>]
  /\ emitted = <<>>
  /\ lastOp = "init"
  /\ attempts = 0
  /\ userConnects = 0
  /\ everOpened = FALSE
  /\ exhausted = 0
  /\ delays = <<>>
  /\ closedPending = FALSE
  /\ autoAfterClose = 0
  /\ sends = 0
  /\ rejected = {}

ElectronIdle ==
  /\ e_signalingClient = FALSE
  /\ e_ws = Null
  /\ reconnectAttempts = 0
  /\ reconnectDelay = InitialReconnectDelay
  /\ isStopping = FALSE
  /\ e_pc = Null
  /\ e_pcs = 0
  /\ e_sockets = [s \in ElectronSocketIds |-> "NONE"]
  /\ e_timers = <<>>
  /\ e_lastOp = "init"
  /\ e_started = FALSE
  /\ e_stops = 0
  /\ stopPending = 0
  /\ createdAfterStop = 0
  /\ e_delays = <<>>

NotOpened == [opened |-> FALSE, reopen |-> FALSE, before |-> 0, after |-> 0]

SenderIdle ==
  /\ ss = [signalingClient |-> FALSE, pc |-> Null,
           connectionState |-> "disconnected"]
  /\ s_pcs = [p \in PcIds |-> "NONE"]
  /\ s_started = FALSE
  /\ s_opens = [s \in SocketIds |-> NotOpened]
  /\ s_applied = {}
  /\ s_stopped = [done |-> FALSE, sent |-> [s \in SocketIds |-> <<>>],
                  applied |-> {}]
  /\ s_events = <<>>
  /\ s_reports = <<>>

ReceiverIdle(roles) ==
  /\ r_opts \in [role : roles, room : ReceiverRooms]
  /\ rr = [signalingClient |-> FALSE, pc |-> Null, status |-> "disconnected"]
  /\ r_mounted = FALSE
  /\ r_log = [s \in SocketIds |-> <<>>]
  /\ r_firstJoin = NoMessage
  /\ r_signals = 0
  /\ r_opens = [s \in SocketIds |-> NotOpened]
  /\ r_applied = {}
  /\ r_calls = <<>>

ClientIdle ==
  /\ options = [initialRetryDelay |-> Undefined, maxRetryDelay |-> Undefined,
                retryMultiplier |-> Undefined, maxRetries |-> Undefined]
  /\ sc = SignalingClient(options)
  /\ sockets = [s \in SocketIds |-> "NONE"]
  /\ timers = <<>>
  /\ sent = [s \in SocketIds |-> <<>>]
  /\ emitted = <<>>
  /\ lastOp = "init"
  /\ attempts = 0
  /\ userConnects = 0
  /\ everOpened = FALSE
  /\ exhausted = 0
  /\ delays = <<>>
  /\ closedPending = FALSE
  /\ autoAfterClose = 0
  /\ sends = 0
  /\ rejected = {}

\* JSON.stringify of an object, seen at its member `data`: NaN is written as
\* null and a member that is undefined is left out
JSONstringify(v) ==
  CASE v[1] = "number" -> <<"num", v[2]>>
    [] v[1] \in {"NaN", "null"} -> <<"null">>
    [] OTHER -> Absent

\* JSON.parse of a frame, seen at its member `data`
JSONparse(t) ==
  CASE t[1] = "num" -> <<"number", t[2]>>
    [] t[1] = "null" -> <<"null">>
    [] OTHER -> <<"undefined">>

\* the fields of a frame; a field the frame lacks is Undefined, and `data`
\* is kept as written
RelayMsg(type, room, role, to, data) ==
  [type |-> type, room |-> room, role |-> role, to |-> to, data |-> data]

NoEffect == [displaced |-> Null, cleaned |-> {}]

Members == {"offerer", "answerer"}

\* no member has connected
PathIdle ==
  /\ link = [mb \in Members |-> Null]
  /\ up = [c \in ConnIds |-> <<>>]
  /\ down = [c \in ConnIds |-> <<>>]
  /\ gone = {}
  /\ called = <<>>
  /\ got = [mb \in Members |-> <<>>]
  /\ lost = [mb \in Members |-> {}]
  /\ unjoined = {}

HeartIdle ==
  /\ pings = [c \in ConnIds |-> FALSE]
  /\ mute = {}
  /\ reaped = {}

RelayIdle ==
  /\ rooms = << >>
  /\ conns = [c \in ConnIds |-> "NONE"]
  /\ isAlive = [c \in ConnIds |-> FALSE]
  /\ outbox = [c \in ConnIds |-> <<>>]
  /\ relayUp = TRUE
  /\ wasFull = {}
  /\ relayLast = NoEffect

ClientNext ==
  \/ UserConnect
  \/ UserClose
  \/ TimerFire
  \/ TransportOpen
  \/ TransportError
  \/ TransportClosing
  \/ TransportClose

\* default backoff options, every maxRetries option
ClientInit ==
  ElectronIdle /\ RelayIdle /\ HeartIdle /\ PathIdle /\ SenderIdle /\
  ReceiverIdle({"answerer"}) /\
  ClientConstructed([initialRetryDelay : {Undefined},
                     maxRetryDelay : {Undefined},
                     retryMultiplier : {Undefined},
                     maxRetries : MaxRetriesOpts])

\* every backoff option, unbounded retries
BackoffInit ==
  ElectronIdle /\ RelayIdle /\ HeartIdle /\ PathIdle /\ SenderIdle /\
  ReceiverIdle({"answerer"}) /\
  ClientConstructed([initialRetryDelay : InitialRetryDelayOpts,
                     maxRetryDelay : MaxRetryDelayOpts,
                     retryMultiplier : RetryMultiplierOpts,
                     maxRetries : {Undefined}])

SpecClient == ClientInit /\ [][ClientNext]_vars

\* an owner that calls connect() once
FirstConnect ==
  /\ userConnects = 0
  /\ UserConnect

\* the client with one retry whose owner connects once and calls send()
SendInit ==
  ElectronIdle /\ RelayIdle /\ HeartIdle /\ PathIdle /\ SenderIdle /\
  ReceiverIdle({"answerer"}) /\
  ClientConstructed([initialRetryDelay : {Undefined},
                     maxRetryDelay : {Undefined},
                     retryMultiplier : {Undefined},
                     maxRetries : {1}])

SendNext ==
  \/ FirstConnect
  \/ UserClose
  \/ UserSend
  \/ TimerFire
  \/ TransportOpen
  \/ TransportError
  \/ TransportClosing
  \/ TransportClose

SpecSend == SendInit /\ [][SendNext]_vars

(* ------- the client under an owner whose callbacks call it back -------- *)
\* what an owner callback may do: nothing, connect() or close()
Reentries == {"none", "connect", "close"}

\* the callback runs at the point of the handler where it is invoked
Reenter(w, cb) ==
  CASE cb = "connect" -> connect(w, FALSE, 0)
    [] cb = "close" -> close(w)
    [] OTHER -> w

Notify(w, ev, cb) == Reenter(Emit(w, ev), cb)

\* scheduleReconnect: onReconnecting is invoked before setTimeout and
\* before the delay is raised
Reentrant_scheduleReconnect(w, jitter, cb) ==
  IF w.sc.retryCount >= w.sc.maxRetries
  THEN Notify(w, <<"onMaxRetriesReached">>, cb)
  ELSE LET n == w.sc.retryCount + 1
           w1 == [w EXCEPT !.sc.retryCount = n]
           w2 == Notify(w1, <<"onReconnecting", n, w1.sc.retryDelay>>, cb)
           d == w2.sc.retryDelay
           w3 == [w2 EXCEPT !.timers = Append(@, d)]
       IN [w3 EXCEPT !.sc.retryDelay =
                        Min(d * w3.sc.retryMultiplier + jitter,
                            w3.sc.maxRetryDelay)]

\* ws.onopen: onOpen is invoked last
Reentrant_onopen(w, s, cb) == Reenter(onopen(w, s), cb)

\* ws.onerror: onError is invoked last
Reentrant_onerror(w, s, cb) == Reenter(onerror(w, s), cb)

\* ws.onclose: onClose is invoked before scheduleReconnect
Reentrant_onclose(w, s, jitter, cb1, cb2) ==
  LET w1 == [w EXCEPT !.sockets[s] = "CLOSED",
                      !.sc.isConnecting = FALSE]
      w2 == Notify(w1, <<"onClose">>, cb1)
  IN IF w2.sc.shouldReconnect
     THEN Reentrant_scheduleReconnect(w2, jitter, cb2)
     ELSE w2

\* a callback's connect() creates a WebSocket only while one is left
MayReenter(cb) == cb = "connect" => attempts < MaxSockets

ReentrantOpen ==
  \E s \in SocketIds, cb \in Reentries :
    /\ UNCHANGED notClientVars
    /\ sockets[s] = "CONNECTING" /\ MayReenter(cb)
    /\ Commit(Reentrant_onopen(World, s, cb), "open")

ReentrantError ==
  \E s \in SocketIds, cb \in Reentries :
    /\ UNCHANGED notClientVars
    /\ Live(sockets[s]) /\ MayReenter(cb)
    /\ Commit(Reentrant_onerror(World, s, cb), "error")

ReentrantClose ==
  \E s \in SocketIds, jitter \in Jitters, cb1 \in Reentries,
     cb2 \in Reentries :
    /\ UNCHANGED notClientVars
    /\ sockets[s] \in {"CONNECTING", "OPEN", "CLOSING"}
    /\ MayReenter(cb1) /\ MayReenter(cb2)
    /\ Commit(Reentrant_onclose(World, s, jitter, cb1, cb2), "closeEvent")

ReentrantNext ==
  \/ FirstConnect
  \/ TimerFire
  \/ ReentrantOpen
  \/ ReentrantError
  \/ TransportClosing
  \/ ReentrantClose

SpecReentrant == ClientInit /\ [][ReentrantNext]_vars

SpecBackoff == BackoffInit /\ [][ClientNext]_vars

\* the client constructed with { maxRetries: 0 }
NoRetryInit ==
  ElectronIdle /\ RelayIdle /\ HeartIdle /\ PathIdle /\ SenderIdle /\
  ReceiverIdle({"answerer"}) /\
  ClientConstructed([initialRetryDelay : {Undefined},
                     maxRetryDelay : {Undefined},
                     retryMultiplier : {Undefined},
                     maxRetries : {0}])

SpecNoRetry == NoRetryInit /\ [][ClientNext]_vars

\* the close event of a WebSocket that is closing
ClosingCompletes ==
  \E s \in SocketIds, jitter \in Jitters :
    /\ UNCHANGED notClientVars
    /\ sockets[s] = "CLOSING"
    /\ Commit(onclose(World, s, jitter), "closeEvent")

\* the client whose pending timers expire and whose closing WebSockets get
\* their close event: setTimeout callbacks and close events are run
SpecClientFair ==
  SpecClient /\ WF_vars(TimerFire) /\ WF_vars(ClosingCompletes)

(* ============ Electron ScreenSender with its built-in client =========== *)

\* doubling without the cap
NextReconnectDelayUncapped(d) == d * 2

NextReconnectDelay(d) == Min(d * 2, MaxReconnectDelay)

NextElectronSocket ==
  Cardinality({s \in ElectronSocketIds : e_sockets[s] # "NONE"}) + 1

ReconnectPending == \E i \in 1..Len(e_timers) : e_timers[i].kind = "reconnect"

PendingReconnectDelay ==
  LET i == CHOOSE j \in 1..Len(e_timers) : e_timers[j].kind = "reconnect"
  IN e_timers[i].delay

\* client.connect(): no guard, a new WebSocket on every call
ElectronConnect ==
  /\ e_ws' = NextElectronSocket
  /\ e_sockets' = [e_sockets EXCEPT ![NextElectronSocket] = "CONNECTING"]
  /\ createdAfterStop' = IF stopPending > 0 THEN createdAfterStop + 1
                         ELSE createdAfterStop

ElectronStart ==
  /\ UNCHANGED notElectronVars
  /\ ~e_started
  /\ e_started' = TRUE
  /\ e_signalingClient' = TRUE
  /\ ElectronConnect
  /\ e_lastOp' = "start"
  /\ UNCHANGED <<reconnectAttempts, reconnectDelay, isStopping, e_pc, e_pcs,
                 e_timers, e_stops, stopPending>>
  /\ UNCHANGED e_delays

\* ws.onopen -> onStatusChange('connected') -> joinRoom -> initializeWebRTC
ElectronOpen ==
  \E s \in ElectronSocketIds :
    /\ UNCHANGED notElectronVars
    /\ e_sockets[s] = "CONNECTING"
    /\ e_sockets' = [e_sockets EXCEPT ![s] = "OPEN"]
    /\ reconnectAttempts' = 0
    /\ reconnectDelay' = InitialReconnectDelay
    \* joinRoom: only if this.signalingClient?.isConnected()
    /\ IF e_signalingClient /\ e_ws # Null /\ e_sockets'[e_ws] = "OPEN"
       THEN e_pcs' = e_pcs + 1 /\ e_pc' = e_pcs + 1
       ELSE UNCHANGED <<e_pc, e_pcs>>
    /\ e_lastOp' = "open"
    /\ UNCHANGED <<e_signalingClient, e_ws, isStopping, e_timers, e_started,
                   e_stops, stopPending, createdAfterStop>>
    /\ e_delays' = <<>>

ElectronError ==
  \E s \in ElectronSocketIds :
    /\ UNCHANGED notElectronVars
    /\ Live(e_sockets[s])
    /\ e_sockets' = [e_sockets EXCEPT ![s] = "CLOSING"]
    /\ e_lastOp' = "error"
    /\ UNCHANGED <<e_signalingClient, e_ws, reconnectAttempts, reconnectDelay,
                   isStopping, e_pc, e_pcs, e_timers, e_started, e_stops,
                   stopPending, createdAfterStop>>
    /\ UNCHANGED e_delays

ElectronClose ==
  \E s \in ElectronSocketIds :
    /\ UNCHANGED notElectronVars
    /\ e_sockets[s] \in {"CONNECTING", "OPEN", "CLOSING"}
    /\ e_sockets' = [e_sockets EXCEPT ![s] = "CLOSED"]
    /\ IF isStopping
       THEN UNCHANGED <<reconnectAttempts, reconnectDelay, e_timers>>
       ELSE IF reconnectAttempts < maxReconnectAttempts
       THEN /\ reconnectAttempts' = reconnectAttempts + 1
            /\ e_timers' = Append(e_timers,
                                  [kind |-> "reconnect",
                                   delay |-> reconnectDelay,
                                   remaining |-> reconnectDelay])
            /\ reconnectDelay' = NextReconnectDelay(reconnectDelay)
       ELSE UNCHANGED <<reconnectAttempts, reconnectDelay, e_timers>>
    /\ e_lastOp' = "closeEvent"
    /\ UNCHANGED <<e_signalingClient, e_ws, isStopping, e_pc, e_pcs,
                   e_started, e_stops, stopPending, createdAfterStop>>
    /\ e_delays' = IF ~isStopping /\ reconnectAttempts < maxReconnectAttempts
                   THEN Append(e_delays, reconnectDelay) ELSE e_delays

ElectronStop ==
  /\ UNCHANGED notElectronVars
  /\ e_started
  /\ e_stops < MaxStops
  /\ e_stops' = e_stops + 1
  /\ isStopping' = TRUE
  /\ IF e_signalingClient /\ e_ws # Null
     THEN /\ e_sockets' = [e_sockets EXCEPT ![e_ws] =
                              IF Live(@) THEN "CLOSING" ELSE @]
          /\ e_ws' = Null
     ELSE UNCHANGED <<e_sockets, e_ws>>
  /\ e_signalingClient' = FALSE
  /\ e_pc' = Null
  /\ e_timers' = Append(e_timers, [kind |-> "resetStopping",
                                   delay |-> StopResetDelay,
                                   remaining |-> StopResetDelay])
  /\ stopPending' = IF stopPending = 0 /\ ReconnectPending
                    THEN PendingReconnectDelay ELSE stopPending
  /\ e_lastOp' = "stop"
  /\ UNCHANGED <<reconnectAttempts, reconnectDelay, e_pcs, e_started,
                 createdAfterStop>>
  /\ UNCHANGED e_delays

\* time passes while no pending timer is due
ElectronTick ==
  /\ UNCHANGED notElectronVars
  /\ e_timers # <<>>
  /\ \A i \in 1..Len(e_timers) : e_timers[i].remaining > 0
  /\ e_timers' = [i \in 1..Len(e_timers) |->
                    [e_timers[i] EXCEPT !.remaining = @ - TickMs]]
  /\ e_lastOp' = "tick"
  /\ UNCHANGED <<e_signalingClient, e_ws, reconnectAttempts, reconnectDelay,
                 isStopping, e_pc, e_pcs, e_sockets, e_started, e_stops,
                 stopPending, createdAfterStop>>
  /\ UNCHANGED e_delays

\* the due timer registered first
DueTimer ==
  CHOOSE i \in 1..Len(e_timers) :
    /\ e_timers[i].remaining = 0
    /\ \A j \in 1..(i - 1) : e_timers[j].remaining > 0

ElectronReconnectTimer ==
  /\ UNCHANGED notElectronVars
  /\ \E i \in 1..Len(e_timers) : e_timers[i].remaining = 0
  /\ e_timers[DueTimer].kind = "reconnect"
  /\ NextElectronSocket <= MaxElectronSockets
  /\ e_timers' = RemoveAt(e_timers, DueTimer)
  /\ IF ~isStopping
     THEN ElectronConnect
     ELSE UNCHANGED <<e_ws, e_sockets, createdAfterStop>>
  /\ e_lastOp' = "reconnectTimer"
  /\ UNCHANGED <<e_signalingClient, reconnectAttempts, reconnectDelay,
                 isStopping, e_pc, e_pcs, e_started, e_stops, stopPending>>
  /\ UNCHANGED e_delays

ElectronResetTimer ==
  /\ UNCHANGED notElectronVars
  /\ \E i \in 1..Len(e_timers) : e_timers[i].remaining = 0
  /\ e_timers[DueTimer].kind = "resetStopping"
  /\ e_timers' = RemoveAt(e_timers, DueTimer)
  /\ isStopping' = FALSE
  /\ e_lastOp' = "resetTimer"
  /\ UNCHANGED <<e_signalingClient, e_ws, reconnectAttempts, reconnectDelay,
                 e_pc, e_pcs, e_sockets, e_started, e_stops, stopPending,
                 createdAfterStop>>
  /\ UNCHANGED e_delays

ElectronInit ==
  ClientIdle /\ ElectronIdle /\ RelayIdle /\ HeartIdle /\ PathIdle /\
  SenderIdle /\
  ReceiverIdle({"answerer"})

ElectronNext ==
  \/ ElectronStart
  \/ ElectronOpen
  \/ ElectronError
  \/ ElectronClose
  \/ ElectronStop
  \/ ElectronTick
  \/ ElectronReconnectTimer
  \/ ElectronResetTimer

SpecElectron == ElectronInit /\ [][ElectronNext]_vars

\* C2: after a stop() made while a reconnect timer was pending, whatever
\* delay that timer has, the built-in client creates no WebSocket.
StopCancelsReconnect == stopPending > 0 => createdAfterStop = 0

SenderWorld(w) == [w |-> w, ss |-> ss, pcs |-> s_pcs, reports |-> <<>>]

\* the `data` argument of a status: {attempt, delay}, {error} or {}
StatusData(attempt, delay, error) ==
  [attempt |-> attempt, delay |-> delay, error |-> error]

NoData == StatusData(Undefined, Undefined, FALSE)

PcsCreated(pcs) == Cardinality({p \in PcIds : pcs[p] # "NONE"})

\* updateStatus that passes the status on without its data
Sender_updateStatusBare(ow, status, data) ==
  [ow EXCEPT !.ss.connectionState = status,
             !.reports = Append(@, <<status, NoData>>)]

Sender_updateStatus(ow, status, data) ==
  [ow EXCEPT !.ss.connectionState = status,
             !.reports = Append(@, <<status, data>>)]

\* the synchronous part: this.pc = new RTCPeerConnection(...)
Sender_initializeWebRTC(ow) ==
  LET p == PcsCreated(ow.pcs) + 1
  IN [ow EXCEPT !.pcs[p] = "OPEN", !.ss.pc = p]

Sender_joinMessage == [type |-> "join", role |-> "offerer", room |-> SenderRoom]

\* joinRoom keeping a peer connection that already exists
Sender_joinRoomResume(ow) ==
  IF ~(ow.ss.signalingClient /\ isConnected(ow.w))
  THEN ow
  ELSE LET o1 == [ow EXCEPT !.w = send(ow.w, Sender_joinMessage)]
       IN IF o1.ss.pc # Null THEN o1 ELSE Sender_initializeWebRTC(o1)

Sender_joinRoom(ow) ==
  IF ~(ow.ss.signalingClient /\ isConnected(ow.w))
  THEN ow
  ELSE Sender_initializeWebRTC(
         [ow EXCEPT !.w = send(ow.w, Sender_joinMessage)])

Sender_rejoinAfterReconnect(ow) ==
  LET o1 == IF ow.ss.pc # Null
            THEN [ow EXCEPT !.pcs[ow.ss.pc] = "CLOSED", !.ss.pc = Null]
            ELSE ow
  IN Sender_joinRoom(o1)

\* handleStatusChange that takes `connected` for a repeat once a peer
\* connection exists
Sender_handleStatusChangeOnce(ow, status, data) ==
  CASE status = "connected" ->
         IF ow.ss.pc # Null THEN ow ELSE Sender_joinRoom(ow)
    [] status = "reconnected" -> Sender_rejoinAfterReconnect(ow)
    [] status = "disconnected" ->
         Sender_updateStatus(ow, "disconnected", NoData)
    [] status = "reconnecting" -> Sender_updateStatus(ow, "reconnecting", data)
    [] status \in {"error", "failed"} -> Sender_updateStatus(ow, "error", data)
    [] OTHER -> ow

Sender_handleStatusChange(ow, status, data) ==
  CASE status = "connected" -> Sender_joinRoom(ow)
    [] status = "reconnected" -> Sender_rejoinAfterReconnect(ow)
    [] status = "disconnected" ->
         Sender_updateStatus(ow, "disconnected", NoData)
    [] status = "reconnecting" -> Sender_updateStatus(ow, "reconnecting", data)
    [] status \in {"error", "failed"} -> Sender_updateStatus(ow, "error", data)
    [] OTHER -> ow

\* createWebRTCSignaling of the shared signaling.js: callback -> status
SharedStatusOf(ev) ==
  CASE ev[1] = "onOpen" -> "connected"
    [] ev[1] = "onReconnecting" -> "reconnecting"
    [] ev[1] = "onReconnected" -> "reconnected"
    [] ev[1] = "onClose" -> "disconnected"
    [] ev[1] = "onError" -> "error"
    [] ev[1] = "onMaxRetriesReached" -> "failed"

\* the second argument the wrapper gives onStatusChange; handleStatusChange
\* takes {} when there is none
SharedDataOf(ev) ==
  CASE ev[1] = "onReconnecting" -> StatusData(ev[2], ev[3], FALSE)
    [] ev[1] = "onError" -> StatusData(Undefined, Undefined, TRUE)
    [] OTHER -> NoData

RECURSIVE Sender_callbacks(_, _)
Sender_callbacks(ow, evs) ==
  IF evs = <<>> THEN ow
  ELSE Sender_callbacks(
         Sender_handleStatusChange(ow, SharedStatusOf(Head(evs)),
                                   SharedDataOf(Head(evs))),
         Tail(evs))

\* the offer of createOffer and the candidates of pc.onicecandidate
Sender_signalMessage ==
  [type |-> "signal", room |-> SenderRoom, to |-> "answerer"]

\* signal frames the sender has written to its WebSockets
Sender_signalsSent(snt) ==
  LET Sum[S \in SUBSET SocketIds] ==
        IF S = {} THEN 0
        ELSE LET x == CHOOSE y \in S : TRUE
                 n == Cardinality({i \in 1..Len(snt[x]) :
                                     snt[x][i].type = "signal"})
             IN n + Sum[S \ {x}]
  IN Sum[SocketIds]

\* handleSignal for a payload that came on WebSocket s: the <<socket, pc>>
\* pairs applied so far, after it
Sender_handleSignal(q, applied, s) ==
  IF q.pc = Null THEN applied ELSE applied \cup {<<s, q.pc>>}

\* stop() that closes the control channel and keeps the peer connection
Sender_stopKeepPc(ow) ==
  LET o1 == IF ow.ss.signalingClient
            THEN [ow EXCEPT !.w = close(ow.w), !.ss.signalingClient = FALSE]
            ELSE ow
  IN Sender_updateStatus(o1, "stopped", NoData)

Sender_stop(ow) ==
  LET o1 == IF ow.ss.signalingClient
            THEN [ow EXCEPT !.w = close(ow.w), !.ss.signalingClient = FALSE]
            ELSE ow
      o2 == IF o1.ss.pc # Null
            THEN [o1 EXCEPT !.pcs[o1.ss.pc] = "CLOSED", !.ss.pc = Null]
            ELSE o1
  IN Sender_updateStatus(o2, "stopped", NoData)

\* the state after a step of the sender: w is the client world after the
\* client's own handler, before the owner callbacks it invoked have run
SenderCommit(w, op) ==
  LET ow == Sender_callbacks(SenderWorld(w), w.emitted)
  IN /\ Commit(ow.w, op)
     /\ ss' = ow.ss
     /\ s_pcs' = ow.pcs
     /\ UNCHANGED notSenderVars

SenderStart ==
  /\ ~s_started
  /\ s_started' = TRUE
  /\ \E throws \in BOOLEAN, jitter \in Jitters :
       LET w == connect(World, throws, jitter)
           ow == Sender_callbacks(
                   [SenderWorld(w) EXCEPT !.ss.signalingClient = TRUE,
                                          !.ss.connectionState = "starting"],
                   w.emitted)
       IN /\ Commit(ow.w, "connect")
          /\ ss' = ow.ss
          /\ s_pcs' = ow.pcs
  /\ UNCHANGED <<s_opens, s_applied, s_stopped>>
  /\ UNCHANGED notSenderVars

SenderStop ==
  /\ s_started
  /\ LET ow == Sender_stop(SenderWorld(World))
     IN /\ Commit(ow.w, "close")
        /\ ss' = ow.ss
        /\ s_pcs' = ow.pcs
        /\ s_stopped' = [done |-> TRUE, sent |-> ow.w.sent,
                         applied |-> s_applied]
  /\ UNCHANGED <<s_started, s_opens, s_applied>>
  /\ UNCHANGED notSenderVars

SenderTimer ==
  /\ attempts < MaxSockets
  /\ \E i \in 1..Len(timers), throws \in BOOLEAN, jitter \in Jitters :
       SenderCommit(timerCallback([World EXCEPT !.timers = RemoveAt(@, i)],
                                  throws, jitter), "timer")
  /\ UNCHANGED <<s_started, s_opens, s_applied, s_stopped>>

SenderOpen ==
  \E s \in SocketIds :
    /\ sockets[s] = "CONNECTING"
    /\ SenderCommit(onopen(World, s), "open")
    /\ s_opens' = [s_opens EXCEPT ![s] =
                     [opened |-> TRUE, reopen |-> everOpened,
                      before |-> PcsCreated(s_pcs),
                      after |-> PcsCreated(s_pcs')]]
    /\ UNCHANGED <<s_started, s_applied, s_stopped>>

SenderError ==
  \E s \in SocketIds :
    /\ Live(sockets[s])
    /\ SenderCommit(onerror(World, s), "error")
    /\ UNCHANGED <<s_started, s_opens, s_applied, s_stopped>>

SenderClosing ==
  \E s \in SocketIds :
    /\ sockets[s] = "OPEN"
    /\ SenderCommit([World EXCEPT !.sockets[s] = "CLOSING"], "closing")
    /\ UNCHANGED <<s_started, s_opens, s_applied, s_stopped>>

SenderClose ==
  \E s \in SocketIds, jitter \in Jitters :
    /\ sockets[s] \in {"CONNECTING", "OPEN", "CLOSING"}
    /\ SenderCommit(onclose(World, s, jitter), "closeEvent")
    /\ UNCHANGED <<s_started, s_opens, s_applied, s_stopped>>

\* a message of the relay arrives on an open WebSocket; the wrapper's
\* onMessage hands the data of a `signal` message to handleSignal, which
\* applies it to this.pc unless this.pc is null
SenderMessage ==
  \E s \in SocketIds, type \in {"signal", "other"} :
    /\ sockets[s] = "OPEN"
    /\ SenderCommit(World, "message")
    /\ s_applied' = IF type = "signal"
                    THEN Sender_handleSignal(ss, s_applied, s)
                    ELSE s_applied
    /\ UNCHANGED <<s_started, s_opens, s_stopped>>

\* a peer connection has an offer or a candidate for the receiver
SenderSignal ==
  \E p \in PcIds :
    /\ s_pcs[p] = "OPEN" /\ ss.signalingClient
    /\ Sender_signalsSent(sent) < MaxOffers
    /\ SenderCommit(send(World, Sender_signalMessage), "signal")
    /\ UNCHANGED <<s_started, s_opens, s_applied, s_stopped>>

SenderInit ==
  ClientIdle /\ ElectronIdle /\ RelayIdle /\ HeartIdle /\ PathIdle /\
  SenderIdle /\
  ReceiverIdle({"answerer"})

SenderNext ==
  \/ SenderStart
  \/ SenderStop
  \/ SenderTimer
  \/ SenderOpen
  \/ SenderError
  \/ SenderClosing
  \/ SenderClose
  \/ SenderMessage
  \/ SenderSignal

SpecSender == SenderInit /\ [][SenderNext]_vars

\* C4: for every WebSocket that opened after an earlier one had been open,
\* the sender created exactly one peer connection while handling the open,
\* and every payload received on that WebSocket was applied to a peer
\* connection created then, never to one that existed before.
FreshSessionOnReopen ==
  \A s \in SocketIds :
    (s_opens[s].opened /\ s_opens[s].reopen) =>
      /\ s_opens[s].after = s_opens[s].before + 1
      /\ \A a \in s_applied : a[1] = s => a[2] > s_opens[s].before

FreshSessionOnReopenWitness ==
  \E a \in s_applied : s_opens[a[1]].reopen /\ s_opens[a[1]].before > 0

\* the peer connections the sender created and has not closed
UnclosedPcs == {p \in PcIds : s_pcs[p] = "OPEN"}

\* C36: the sender has at most one peer connection that is not closed: when
\* a WebSocket opens after an earlier one had been open, the previous peer
\* connection is closed before the new one is created.
OnePeerConnection == Cardinality(UnclosedPcs) <= 1

\* the sender after the client's handler took World to w and the owner
\* callbacks it invoked have run
AfterEvent(w) == Sender_callbacks(SenderWorld(w), w.emitted)

\* C37: once stop() has returned the sender has written no further frame
\* and applied no further payload, and an open, message or close event of
\* any WebSocket of its former client makes it write none and apply none.
StopSilences ==
  s_stopped.done =>
    /\ sent = s_stopped.sent
    /\ s_applied = s_stopped.applied
    /\ \A s \in SocketIds :
         sockets[s] # "NONE" =>
           /\ AfterEvent(onopen(World, s)).w.sent = sent
           /\ AfterEvent(onopen(World, s)).pcs = s_pcs
           /\ \A jitter \in Jitters :
                /\ AfterEvent(onclose(World, s, jitter)).w.sent = sent
                /\ AfterEvent(onclose(World, s, jitter)).pcs = s_pcs
           /\ Sender_handleSignal(ss, s_applied, s) = s_applied

\* stop() was called while the sender was in its room with a peer
\* connection, and the close event of its WebSocket has come since
StopSilencesWitness ==
  /\ s_stopped.done /\ lastOp = "closeEvent"
  /\ s_stopped.sent[1] # <<>> /\ s_pcs[1] = "CLOSED"
  /\ sockets[1] = "CLOSED"

(* ---- the sender's callbacks under the events of the control channel ---- *)
\* createWebRTCSignaling hands its clientOptions (maxRetries among them) to
\* the client, so every event of the client can reach the callbacks
StatusAttempts == 1..MaxAttemptShown

StatusDelays == {DefaultInitialRetryDelay, DefaultMaxRetryDelay}

\* the sender's callbacks run on event ev of the client
StatusStep(ev) ==
  /\ Len(s_events) < MaxEvents
  /\ LET ow == Sender_callbacks(SenderWorld(World), <<ev>>)
     IN /\ ss' = ow.ss
        /\ s_pcs' = ow.pcs
        /\ s_events' = Append(s_events, ev)
        /\ s_reports' = Append(s_reports, ow.reports)
  /\ UNCHANGED <<s_started, s_opens, s_applied, s_stopped>>
  /\ UNCHANGED <<clientVars, electronVars, receiverVars, relayVars, pathVars,
                 heartVars, receiverCallVars>>

StatusReconnecting ==
  \E n \in StatusAttempts, d \in StatusDelays :
    StatusStep(<<"onReconnecting", n, d>>)

StatusClosed == StatusStep(<<"onClose">>)

StatusExhausted == StatusStep(<<"onMaxRetriesReached">>)

StatusOther ==
  \E name \in {"onOpen", "onReconnected", "onError"} : StatusStep(<<name>>)

StatusInit ==
  ClientIdle /\ ElectronIdle /\ RelayIdle /\ HeartIdle /\ PathIdle /\
  SenderIdle /\ ReceiverIdle({"answerer"})

StatusNext ==
  \/ StatusReconnecting
  \/ StatusClosed
  \/ StatusExhausted
  \/ StatusOther

SpecStatus == StatusInit /\ [][StatusNext]_vars

\* the reports the sender makes of event i are the one pair <<status, data>>
Reported(i, status, data) == s_reports[i] = << <<status, data>> >>

JoinFirstOnReopen ==
  \A s \in SocketIds :
    (s_opens[s].opened /\ s_opens[s].reopen) =>
      /\ sent[s] # <<>>
      /\ sent[s][1] = Sender_joinMessage

\* a reopened WebSocket carrying the join and then a signal
JoinFirstOnReopenWitness ==
  \E s \in SocketIds :
    /\ s_opens[s].opened /\ s_opens[s].reopen
    /\ Len(sent[s]) >= 2 /\ sent[s][2] = Sender_signalMessage

(* ===== ScreenReceiver (receiverApp) on its own copy of SignalingClient === *)
(* receiverApp/utils/signaling.js repeats the statements of the shared      *)
(* SignalingClient (connect, onclose, onerror, scheduleReconnect, send,     *)
(* close) and differs in ws.onopen and in the createWebRTCSignaling wrapper. *)

ToLowerCase(str) ==
  CASE str = "Receiver" -> "receiver"
    [] str = "Sender" -> "sender"
    [] OTHER -> str

Receiver_onopen(w, s) ==
  LET w1 == [w EXCEPT !.sockets[s] = "OPEN",
                      !.sc.isConnecting = FALSE,
                      !.sc.retryDelay = ResetRetryDelay]
      wasReconnecting == w1.sc.retryCount > 0
      w2 == [w1 EXCEPT !.sc.retryCount = 0]
      w3 == IF wasReconnecting THEN Emit(w2, <<"onReconnected">>) ELSE w2
  IN Emit(w3, <<"onOpen">>)

\* peer connections built so far: initializePeerConnection is called by
\* connect() only
ReceiverPcs(r) == IF r.pc = Null THEN 0 ELSE r.pc

\* reports: the statuses passed to onStatusChange during the step
ReceiverWorld(w) == [w |-> w, rr |-> rr, log |-> r_log, opts |-> r_opts,
                     reports |-> <<>>]

Receiver_joinMessage(opts) ==
  [type |-> "join", room |-> opts.room, role |-> ToLowerCase(opts.role)]

\* client.send(msg) of the wrapper, recording what was transmitted
Receiver_send(ow, msg) ==
  IF isConnected(ow.w)
  THEN [ow EXCEPT !.w = send(ow.w, msg),
                  !.log[ow.w.sc.ws] = Append(@, <<"send", msg>>)]
  ELSE ow

Receiver_handleStatusChange(ow, status) ==
  LET o1 == [ow EXCEPT !.reports = Append(@, status)]
  IN IF status \in {"connected", "reconnecting", "disconnected", "error"}
     THEN [o1 EXCEPT !.rr.status = status]
     ELSE o1

\* the wrapper of the shared signaling.js: status only, no join
Receiver_callbackShared(ow, s, ev) ==
  Receiver_handleStatusChange(ow, SharedStatusOf(ev))

\* the callbacks createWebRTCSignaling passes to the client
Receiver_callback(ow, s, ev) ==
  CASE ev[1] = "onOpen" ->
         LET o1 == Receiver_handleStatusChange(ow, "connected")
         IN IF ow.opts.room # ""
            THEN Receiver_send(o1, Receiver_joinMessage(ow.opts))
            ELSE o1
    [] ev[1] = "onReconnected" ->
         LET o1 == Receiver_handleStatusChange(ow, "reconnected")
         IN IF ow.opts.room # ""
            THEN Receiver_send(o1, Receiver_joinMessage(ow.opts))
            ELSE o1
    [] ev[1] = "onReconnecting" ->
         Receiver_handleStatusChange(ow, "reconnecting")
    [] ev[1] = "onClose" -> Receiver_handleStatusChange(ow, "disconnected")
    [] ev[1] = "onError" -> Receiver_handleStatusChange(ow, "error")
    [] ev[1] = "onMaxRetriesReached" ->
         Receiver_handleStatusChange(ow, "failed")

\* client.sendSignal(data, targetRole) of the wrapper; "" stands for a
\* targetRole the caller left out
Receiver_sendSignal(ow, data, targetRole) ==
  Receiver_send(ow, [type |-> "signal", room |-> ow.opts.room,
                     to |-> IF targetRole # "" THEN targetRole
                            ELSE IF ow.opts.role = "Sender" THEN "answerer"
                            ELSE "offerer",
                     data |-> data])

\* the callbacks the client invoked while handling an event of WebSocket
\* s, run in order; a reconnected event is recorded before its callback
RECURSIVE Receiver_callbacks(_, _, _)
Receiver_callbacks(ow, s, evs) ==
  IF evs = <<>> THEN ow
  ELSE LET o1 == IF Head(evs)[1] = "onReconnected"
                 THEN [ow EXCEPT !.log[s] = Append(@, <<"reconnected">>)]
                 ELSE ow
       IN Receiver_callbacks(Receiver_callback(o1, s, Head(evs)), s, Tail(evs))

FirstJoin(log, s) ==
  LET js == {i \in 1..Len(log[s]) : log[s][i][1] = "send"}
  IN IF js = {} THEN NoMessage
     ELSE log[s][CHOOSE i \in js : \A j \in js : i <= j][2]

\* the state after a step of the receiver on WebSocket s (0: none): w is
\* the client world after the client's own handler
ReceiverCommit(w, s, op) ==
  LET ow == Receiver_callbacks(ReceiverWorld(w), s, w.emitted)
  IN /\ Commit(ow.w, op)
     /\ rr' = ow.rr
     /\ r_log' = ow.log
     /\ r_firstJoin' = IF r_firstJoin = NoMessage /\ s # 0
                       THEN FirstJoin(ow.log, s) ELSE r_firstJoin
     /\ UNCHANGED r_opts
     /\ UNCHANGED notReceiverVars

\* connect() of the component, run once by the mount effect
ReceiverConnect ==
  /\ ~r_mounted
  /\ r_mounted' = TRUE
  /\ \E throws \in BOOLEAN, jitter \in Jitters :
       LET w == connect(World, throws, jitter)
           ow == Receiver_callbacks(
                   [ReceiverWorld(w) EXCEPT !.rr.pc = 1,
                                            !.rr.signalingClient = TRUE,
                                            !.rr.status = "connecting"],
                   0, w.emitted)
       IN /\ Commit(ow.w, "connect")
          /\ rr' = ow.rr
          /\ r_log' = ow.log
  /\ UNCHANGED <<r_opts, r_firstJoin, r_signals, r_opens, r_applied>>
  /\ UNCHANGED notReceiverVars

ReceiverTimer ==
  /\ attempts < MaxSockets
  /\ \E i \in 1..Len(timers), throws \in BOOLEAN, jitter \in Jitters :
       ReceiverCommit(timerCallback([World EXCEPT !.timers = RemoveAt(@, i)],
                                    throws, jitter), 0, "timer")
  /\ UNCHANGED <<r_mounted, r_signals, r_opens, r_applied>>

ReceiverOpen ==
  \E s \in SocketIds :
    /\ sockets[s] = "CONNECTING"
    /\ ReceiverCommit(Receiver_onopen(World, s), s, "open")
    /\ r_opens' = [r_opens EXCEPT ![s] =
                     [opened |-> TRUE, reopen |-> everOpened,
                      before |-> ReceiverPcs(rr), after |-> ReceiverPcs(rr')]]
    /\ UNCHANGED <<r_mounted, r_signals, r_applied>>

ReceiverError ==
  \E s \in SocketIds :
    /\ Live(sockets[s])
    /\ ReceiverCommit(onerror(World, s), s, "error")
    /\ UNCHANGED <<r_mounted, r_signals, r_opens, r_applied>>

ReceiverClosing ==
  \E s \in SocketIds :
    /\ sockets[s] = "OPEN"
    /\ ReceiverCommit([World EXCEPT !.sockets[s] = "CLOSING"], s, "closing")
    /\ UNCHANGED <<r_mounted, r_signals, r_opens, r_applied>>

ReceiverClose ==
  \E s \in SocketIds, jitter \in Jitters :
    /\ sockets[s] \in {"CONNECTING", "OPEN", "CLOSING"}
    /\ ReceiverCommit(onclose(World, s, jitter), s, "closeEvent")
    /\ UNCHANGED <<r_mounted, r_signals, r_opens, r_applied>>

\* a `signal` message of the relay arrives on an open WebSocket: onMessage
\* forwards its data to onSignal = handleSignal, which applies it to
\* peerConnectionRef.current unless that is null
ReceiverMessage ==
  \E s \in SocketIds :
    /\ sockets[s] = "OPEN"
    /\ r_signals < MaxSignals
    /\ r_signals' = r_signals + 1
    /\ Commit(World, "message")
    /\ r_log' = [r_log EXCEPT ![s] = Append(@, <<"onSignal">>)]
    /\ r_applied' = IF rr.pc # Null THEN r_applied \cup {<<s, rr.pc>>}
                    ELSE r_applied
    /\ UNCHANGED <<r_opts, rr, r_mounted, r_firstJoin, r_opens>>
    /\ UNCHANGED notReceiverVars

\* the component sends an answer or an ICE candidate through the client
\* connect() has created
ReceiverSendSignal ==
  \E targetRole \in {"", "offerer"} :
    /\ rr.signalingClient
    /\ Len(r_calls) < MaxSendSignals
    /\ LET ow == Receiver_sendSignal(ReceiverWorld(World),
                                     Len(r_calls) + 1, targetRole)
       IN /\ Commit(ow.w, "sendSignal")
          /\ rr' = ow.rr
          /\ r_log' = ow.log
          /\ r_calls' = Append(r_calls,
                [open |-> isConnected(World),
                 everOpened |-> everOpened,
                 wrote |-> IF sc.ws = Null THEN 0
                           ELSE Len(ow.w.sent[sc.ws]) - Len(sent[sc.ws]),
                 pending |-> Len(ow.w.timers) - Len(timers),
                 reports |-> ow.reports])
    /\ UNCHANGED <<r_opts, r_mounted, r_firstJoin, r_signals, r_opens,
                   r_applied>>
    /\ UNCHANGED <<electronVars, senderVars, relayVars, pathVars, heartVars,
                   statusVars>>

ReceiverInit ==
  ClientIdle /\ ElectronIdle /\ RelayIdle /\ HeartIdle /\ PathIdle /\
  SenderIdle /\
  ReceiverIdle(ReceiverRoles)

ReceiverNext ==
  \/ ReceiverConnect
  \/ ReceiverTimer
  \/ ReceiverOpen
  \/ ReceiverError
  \/ ReceiverClosing
  \/ ReceiverClose
  \/ ReceiverMessage
  \/ ReceiverSendSignal

SpecReceiver == ReceiverInit /\ [][ReceiverNext]_vars

\* C3: on every WebSocket, each reconnected event is followed by a join
\* carrying the room and role of the first join the client sent, with no
\* payload forwarded to onSignal in between.
RejoinAfterReconnected ==
  \A s \in SocketIds : \A i \in 1..Len(r_log[s]) :
    r_log[s][i][1] = "reconnected" =>
      \E j \in (i + 1)..Len(r_log[s]) :
        /\ r_log[s][j] = <<"send", r_firstJoin>>
        /\ r_firstJoin.type = "join"
        /\ \A k \in (i + 1)..(j - 1) : r_log[s][k][1] # "onSignal"

\* a reconnected WebSocket on which a payload was forwarded, after an
\* earlier WebSocket had carried the original join
RejoinAfterReconnectedWitness ==
  \E s \in SocketIds : \E i, k \in 1..Len(r_log[s]) :
    /\ i < k
    /\ r_log[s][i][1] = "reconnected"
    /\ r_log[s][k][1] = "onSignal"
    /\ r_opens[s].reopen

\* C5: a payload received on a WebSocket that opened after an earlier one
\* had been open is applied only to a peer connection built when that
\* WebSocket opened, never to the one that existed before the break.
ReceiverRebuildsOnReconnect ==
  \A a \in r_applied :
    r_opens[a[1]].reopen => a[2] > r_opens[a[1]].before

(* ===================== relay (signaling server) ======================== *)
\* joins under the two roles the clients use, and one under another role
JoinMessages ==
  {RelayMsg("join", r, k, Undefined, Absent) :
     r \in RelayRooms, k \in FixedRoles}
  \cup {RelayMsg("join", "R1", "viewer", Undefined, Absent)}

SignalMessages ==
  {RelayMsg("signal", r, Undefined, k, d) :
     r \in RelayRooms, k \in RoleKeys, d \in WireData}

\* a JSON message of another type, and a frame that is not JSON
OtherMessages ==
  {RelayMsg("ping", Undefined, Undefined, Undefined, Absent),
   RelayMsg("malformed", Undefined, Undefined, Undefined, Absent)}

\* the relay as a handler finds it, having sent nothing yet
RelayWorld == [rooms |-> rooms, conns |-> conns, isAlive |-> isAlive,
               outbox |-> [c \in ConnIds |-> <<>>], up |-> relayUp]

EmptyEntry == [k \in RoleKeys |-> Null]

\* rooms.get(room) || {}
RoomEntry(rms, room) == IF room \in DOMAIN rms THEN rms[room] ELSE EmptyEntry

\* rooms.set(room, entry)
SetRoom(rms, room, entry) ==
  [r \in DOMAIN rms \cup {room} |-> IF r = room THEN entry ELSE rms[r]]

Relay_connection(rw, c) ==
  [rw EXCEPT !.conns[c] = "OPEN", !.isAlive[c] = TRUE]

\* join that keeps the occupant a slot already has
Relay_joinKeep(rw, c, m) ==
  LET entry == RoomEntry(rw.rooms, m.room)
  IN [rw EXCEPT !.rooms = SetRoom(rw.rooms, m.room,
        [entry EXCEPT ![m.role] = IF @ = Null THEN c ELSE @])]

\* join that leaves a slot to an occupant whose socket is still open
Relay_joinUnlessOpen(rw, c, m) ==
  LET entry == RoomEntry(rw.rooms, m.room)
  IN [rw EXCEPT !.rooms = SetRoom(rw.rooms, m.room,
        [entry EXCEPT ![m.role] =
           IF @ # Null /\ rw.conns[@] = "OPEN" THEN @ ELSE c])]

Relay_join(rw, c, m) ==
  LET entry == RoomEntry(rw.rooms, m.room)
  IN [rw EXCEPT !.rooms = SetRoom(rw.rooms, m.room,
                                  [entry EXCEPT ![m.role] = c])]

\* JSON.stringify({ type: 'signal', data }), data as JSON.parse read it
Forwarded(data) == [type |-> "signal", data |-> JSONstringify(JSONparse(data))]

\* signal branch that forwards the frame twice
Relay_signalTwice(rw, c, m) ==
  LET entry == RoomEntry(rw.rooms, m.room)
      target == entry[m.to]
  IN IF target # Null /\ rw.conns[target] = "OPEN"
     THEN [rw EXCEPT !.outbox[target] =
                        Append(Append(@, Forwarded(m.data)), Forwarded(m.data))]
     ELSE rw

Relay_signal(rw, c, m) ==
  LET entry == RoomEntry(rw.rooms, m.room)
      target == entry[m.to]
  IN IF target # Null /\ rw.conns[target] = "OPEN"
     THEN [rw EXCEPT !.outbox[target] = Append(@, Forwarded(m.data))]
     ELSE rw

\* the uncaught exception ends the process: the map is gone and every
\* socket is closed
Relay_crash(rw) ==
  [rw EXCEPT !.up = FALSE, !.rooms = << >>,
             !.conns = [c \in ConnIds |-> IF @[c] = "NONE" THEN "NONE"
                                          ELSE "CLOSED"]]

\* handler that stores the entry it looked up before it tests the type
Relay_messageStore(rw, c, m) ==
  IF m.type = "malformed" THEN Relay_crash(rw)
  ELSE IF m.type = "join" THEN Relay_join(rw, c, m)
  ELSE IF m.type = "signal"
  THEN Relay_signal([rw EXCEPT !.rooms = SetRoom(rw.rooms, m.room,
                                           RoomEntry(rw.rooms, m.room))], c, m)
  ELSE rw

\* ws.on('message'); JSON.parse throws on a frame that is not JSON and
\* nothing catches it
Relay_message(rw, c, m) ==
  IF m.type = "malformed" THEN Relay_crash(rw)
  ELSE IF m.type = "join" THEN Relay_join(rw, c, m)
  ELSE IF m.type = "signal" THEN Relay_signal(rw, c, m)
  ELSE rw

Holds(entry, c) == entry["offerer"] = c \/ entry["answerer"] = c

Vacate(entry, c) ==
  [k \in RoleKeys |-> IF k \in FixedRoles /\ entry[k] = c THEN Null
                      ELSE entry[k]]

Vacant(entry) == entry["offerer"] = Null /\ entry["answerer"] = Null

\* close handler that leaves the emptied entry in the map
Relay_closeKeepRoom(rw, c) ==
  [rw EXCEPT !.conns[c] = "CLOSED",
             !.rooms = [r \in DOMAIN rw.rooms |->
                          IF Holds(rw.rooms[r], c) THEN Vacate(rw.rooms[r], c)
                          ELSE rw.rooms[r]]]

\* ws.on('close')
Relay_close(rw, c) ==
  LET kept == {r \in DOMAIN rw.rooms :
                 Holds(rw.rooms[r], c) => ~Vacant(Vacate(rw.rooms[r], c))}
  IN [rw EXCEPT !.conns[c] = "CLOSED",
                !.rooms = [r \in kept |->
                             IF Holds(rw.rooms[r], c)
                             THEN Vacate(rw.rooms[r], c)
                             ELSE rw.rooms[r]]]

\* GET /api/stats
Stats(rms) ==
  LET Occupied(r) == {k \in FixedRoles : rms[r][k] # Null}
      Sum[S \in SUBSET DOMAIN rms] ==
        IF S = {} THEN 0
        ELSE LET r == CHOOSE x \in S : TRUE
             IN Cardinality(Occupied(r)) + Sum[S \ {r}]
  IN [totalRooms |-> Cardinality(DOMAIN rms),
      activeConnections |-> Sum[DOMAIN rms]]

Full(entry) == entry["offerer"] # Null /\ entry["answerer"] # Null

\* the state after a step of the relay that took RelayWorld to rw
RelayCommit(rw) ==
  /\ rooms' = rw.rooms
  /\ conns' = rw.conns
  /\ isAlive' = rw.isAlive
  /\ outbox' = rw.outbox
  /\ relayUp' = rw.up
  /\ wasFull' = {r \in DOMAIN rw.rooms : Full(rw.rooms[r]) \/ r \in wasFull}
  /\ relayLast' =
       [displaced |->
          LET taken == {c \in ConnIds : \E r \in DOMAIN rooms, k \in RoleKeys :
                          /\ rooms[r][k] = c
                          /\ r \in DOMAIN rw.rooms
                          /\ rw.rooms[r][k] \notin {c, Null}}
          IN IF taken = {} THEN Null ELSE CHOOSE c \in taken : TRUE,
        cleaned |-> IF rw.up THEN wasFull \ DOMAIN rw.rooms ELSE {}]

ConnectionStep(c) ==
  /\ relayUp /\ conns[c] = "NONE" /\ c <= MaxConns
  /\ \A d \in ConnIds : d < c => conns[d] # "NONE"
  /\ RelayCommit(Relay_connection(RelayWorld, c))
  /\ UNCHANGED notRelayVars

RelayConnection == \E c \in ConnIds : ConnectionStep(c)

MessageStep(c, m) ==
  /\ relayUp /\ conns[c] = "OPEN"
  /\ RelayCommit(Relay_message(RelayWorld, c, m))
  /\ UNCHANGED notRelayVars

RelayMessage ==
  \E c \in ConnIds, m \in JoinMessages \cup SignalMessages \cup OtherMessages :
    MessageStep(c, m)

\* the peer starts the closing handshake, the socket fails, or the
\* heartbeat terminates the connection
RelayClosing ==
  \E c \in ConnIds :
    /\ relayUp /\ conns[c] = "OPEN"
    /\ RelayCommit([RelayWorld EXCEPT !.conns[c] = "CLOSING"])
    /\ UNCHANGED notRelayVars

CloseStep(c) ==
  /\ relayUp /\ conns[c] \in {"OPEN", "CLOSING"}
  /\ RelayCommit(Relay_close(RelayWorld, c))
  /\ UNCHANGED notRelayVars

RelayClose == \E c \in ConnIds : CloseStep(c)

RelayInit ==
  ClientIdle /\ ElectronIdle /\ RelayIdle /\ HeartIdle /\ PathIdle /\
  SenderIdle /\
  ReceiverIdle({"answerer"})

RelayNext ==
  \/ RelayConnection
  \/ RelayMessage
  \/ RelayClosing
  \/ RelayClose

SpecRelay == RelayInit /\ [][RelayNext]_vars

(* ========================= relay heartbeat ============================= *)
\* wss.clients: the connections whose close event has not run
Clients(rw) == {c \in ConnIds : rw.conns[c] \in {"OPEN", "CLOSING"}}

\* ws.on('pong')
Relay_pong(rw, c) == [rw EXCEPT !.isAlive[c] = TRUE]

\* the connections a sweep terminates, and those it sends a ping frame
Terminated(rw) == {c \in Clients(rw) : ~rw.isAlive[c]}

Pinged(rw) == {c \in Clients(rw) : rw.isAlive[c] /\ rw.conns[c] = "OPEN"}

\* the setInterval callback; terminate() destroys the socket, which is
\* CLOSING until its close event runs
Relay_sweep(rw) ==
  [rw EXCEPT !.conns = [c \in ConnIds |->
                          IF c \in Terminated(rw) THEN "CLOSING" ELSE @[c]],
             !.isAlive = [c \in ConnIds |->
                            IF c \in Clients(rw) THEN FALSE ELSE @[c]]]

HeartJoin == \E c \in ConnIds, m \in JoinMessages : MessageStep(c, m)

\* the peer of a connection stops answering
HeartMute ==
  \E c \in ConnIds :
    /\ conns[c] = "OPEN" /\ c \notin mute
    /\ mute' = mute \cup {c}
    /\ UNCHANGED <<pings, reaped>>
    /\ UNCHANGED relayVars
    /\ UNCHANGED notHeartVars

\* the pong of a peer that still answers reaches the relay
HeartPong ==
  \E c \in ConnIds :
    /\ relayUp /\ conns[c] = "OPEN" /\ pings[c] /\ c \notin mute
    /\ RelayCommit(Relay_pong(RelayWorld, c))
    /\ pings' = [pings EXCEPT ![c] = FALSE]
    /\ UNCHANGED <<mute, reaped>>
    /\ UNCHANGED notHeartVars

\* the 30 s interval fires; the close event of a destroyed socket is
\* emitted from the next tick, so those of the last sweep have run
HeartSweep ==
  /\ relayUp
  /\ \A c \in reaped : conns[c] = "CLOSED"
  /\ RelayCommit(Relay_sweep(RelayWorld))
  /\ pings' = [c \in ConnIds |-> pings[c] \/ c \in Pinged(RelayWorld)]
  /\ reaped' = reaped \cup Terminated(RelayWorld)
  /\ UNCHANGED mute
  /\ UNCHANGED notHeartVars

HeartInit ==
  ClientIdle /\ ElectronIdle /\ RelayIdle /\ HeartIdle /\ PathIdle /\
  SenderIdle /\ ReceiverIdle({"answerer"})

HeartNext ==
  \/ RelayConnection
  \/ HeartJoin
  \/ HeartMute
  \/ HeartPong
  \/ HeartSweep
  \/ RelayClosing
  \/ RelayClose

SpecHeartbeat == HeartInit /\ [][HeartNext]_vars

(* ============ two room members, their WebSockets and the relay ========= *)
PathRoom == "R1"

Peer(mb) == IF mb = "offerer" THEN "answerer" ELSE "offerer"

\* the join frame a member writes when its WebSocket has opened
Path_joinFrame(mb) == RelayMsg("join", PathRoom, mb, Undefined, Absent)

\* the frame send() writes for { type: 'signal', room, to, data }
Path_signalFrame(mb, payload) ==
  RelayMsg("signal", PathRoom, Undefined, Peer(mb), JSONstringify(payload))

\* wrapper onMessage that forwards a signal to onSignal twice
Wrapper_onMessageTwice(seen, frame) ==
  IF frame.type = "signal"
  THEN Append(Append(seen, JSONparse(frame.data)), JSONparse(frame.data))
  ELSE seen

\* onMessage of createWebRTCSignaling: the payloads onSignal has been
\* called with, after this frame
Wrapper_onMessage(seen, frame) ==
  IF frame.type = "signal" THEN Append(seen, JSONparse(frame.data)) ELSE seen

\* the relay state after one of its handlers, its frames put on the wire
PathCommit(rw) ==
  /\ RelayCommit(rw)
  /\ down' = [c \in ConnIds |-> down[c] \o rw.outbox[c]]

\* a member's WebSocket opens on a new relay connection and the member
\* sends its join
ConnectAs(mb, c) ==
  /\ relayUp /\ link[mb] = Null /\ conns[c] = "NONE"
  /\ \A d \in ConnIds : d < c => conns[d] # "NONE"
  /\ PathCommit(Relay_connection(RelayWorld, c))
  /\ link' = [link EXCEPT ![mb] = c]
  /\ up' = [up EXCEPT ![c] = <<Path_joinFrame(mb)>>]
  /\ UNCHANGED <<gone, called, got, lost, unjoined>>
  /\ UNCHANGED notPathVars

PathConnect ==
  \E mb \in Members, c \in 1..MaxConns : ConnectAs(mb, c)

SendBy(mb) ==
  LET payload == <<"number", Len(called) + 1>>
  IN /\ Len(called) < MaxCalls
     /\ called' = Append(called, [from |-> mb, conn |-> link[mb]])
     /\ up' = IF link[mb] # Null
              THEN [up EXCEPT ![link[mb]] =
                      Append(@, Path_signalFrame(mb, payload))]
              ELSE up
     /\ UNCHANGED <<link, down, gone, got, lost, unjoined>>
     /\ UNCHANGED relayVars
     /\ UNCHANGED notPathVars

\* a member calls send() with the next payload
PathSend == \E mb \in Members : SendBy(mb)

\* the relay receives the next frame of a connection
PathRelayMessage ==
  \E c \in ConnIds :
    /\ relayUp /\ conns[c] = "OPEN" /\ up[c] # <<>>
    /\ PathCommit(Relay_message(RelayWorld, c, Head(up[c])))
    /\ up' = [up EXCEPT ![c] = Tail(@)]
    /\ UNCHANGED <<link, gone, called, got, lost, unjoined>>
    /\ UNCHANGED notPathVars

\* a member's WebSocket delivers the next frame to onmessage
PathDeliver ==
  \E mb \in Members :
    /\ link[mb] # Null /\ down[link[mb]] # <<>>
    /\ got' = [got EXCEPT ![mb] = Wrapper_onMessage(@, Head(down[link[mb]]))]
    /\ down' = [down EXCEPT ![link[mb]] = Tail(@)]
    /\ UNCHANGED <<link, up, gone, called, lost, unjoined>>
    /\ UNCHANGED relayVars
    /\ UNCHANGED notPathVars

\* the relay has received the join frame of connection c
JoinReceived(c) ==
  conns[c] # "NONE" /\ \A i \in 1..Len(up[c]) : up[c][i].type # "join"

DropOf(mb) ==
  /\ link[mb] # Null
  /\ link' = [link EXCEPT ![mb] = Null]
  /\ gone' = gone \cup {link[mb]}
  /\ lost' = [lost EXCEPT ![mb] = @ \cup {link[mb]}]
  /\ unjoined' = IF JoinReceived(link[mb]) THEN unjoined
                 ELSE unjoined \cup {link[mb]}
  /\ UNCHANGED <<up, down, called, got>>
  /\ UNCHANGED relayVars
  /\ UNCHANGED notPathVars

\* a member's WebSocket closes: the member receives nothing more on it
PathDrop == \E mb \in Members : DropOf(mb)

\* the relay, having received what the member wrote, gets the close event
PathRelayClose ==
  \E c \in gone :
    /\ relayUp /\ conns[c] = "OPEN" /\ up[c] = <<>>
    /\ PathCommit(Relay_close(RelayWorld, c))
    /\ UNCHANGED <<link, up, gone, called, got, lost, unjoined>>
    /\ UNCHANGED notPathVars

PathInit ==
  ClientIdle /\ ElectronIdle /\ RelayIdle /\ HeartIdle /\ PathIdle /\
  SenderIdle /\
  ReceiverIdle({"answerer"})

PathNext ==
  \/ PathConnect
  \/ PathSend
  \/ PathRelayMessage
  \/ PathDeliver
  \/ PathDrop
  \/ PathRelayClose

SpecPath == PathInit /\ [][PathNext]_vars

(* ------- a member replaces its connection, its peer stays connected ---- *)
\* a member connects, also on the connection beyond MaxConns
RecoveryConnect == \E mb \in Members, c \in ConnIds : ConnectAs(mb, c)

\* a member's WebSocket closes while its peer has lost none
RecoveryDrop ==
  \E mb \in Members : lost[Peer(mb)] = {} /\ DropOf(mb)

\* the peer of a member that has lost a connection calls send()
RecoverySend == \E mb \in Members : lost[Peer(mb)] # {} /\ SendBy(mb)

RecoveryNext ==
  \/ RecoveryConnect
  \/ RecoverySend
  \/ PathRelayMessage
  \/ PathDeliver
  \/ RecoveryDrop
  \/ PathRelayClose

SpecRecovery == PathInit /\ [][RecoveryNext]_vars

\* C25: a sendSignal call made while the WebSocket is not open writes no
\* frame, keeps nothing for later, and reports the failure to the
\* application through the status callback.
SendSignalFailureReported ==
  \A i \in 1..Len(r_calls) :
    ~r_calls[i].open =>
      /\ r_calls[i].wrote = 0 /\ r_calls[i].pending = 0
      /\ r_calls[i].reports # <<>>

\* C27: the receiver app's client emits, for each WebSocket that opens,
\* exactly one of onOpen and onReconnected.
ExactlyOneOpenEvent ==
  lastOp = "open" =>
    Count(emitted, "onOpen") + Count(emitted, "onReconnected") = 1

\* C30: under an owner that calls connect() once and otherwise calls the
\* client only from its callbacks, the client never has a second
\* in-flight attempt or a second pending timer.
ReentryHarmless ==
  /\ Cardinality({s \in SocketIds : sockets[s] = "CONNECTING"}) <= 1
  /\ Len(timers) <= 1

(* ============================ relay claims ============================= *)
\* connections whose frames the relay can receive
Senders == {c \in ConnIds : relayUp /\ conns[c] = "OPEN"}

\* the connections a handler run from the present state hands a frame to
Receivers(rw) == {d \in ConnIds : rw.outbox[d] # <<>>}

\* C11: a join puts the joining connection into the slot it names, whoever
\* held it, and changes no other slot; a signal is handed only to the
\* connection that holds the slot it is addressed to, so never to a
\* connection a later join took that slot from.
LastWriteWins ==
  \A c \in Senders :
    /\ \A m \in JoinMessages :
         LET rw == Relay_message(RelayWorld, c, m)
         IN /\ m.room \in DOMAIN rw.rooms /\ rw.rooms[m.room][m.role] = c
            /\ \A r \in DOMAIN rw.rooms, k \in RoleKeys :
                 <<r, k>> # <<m.room, m.role>>
                   => rw.rooms[r][k] = RoomEntry(rooms, r)[k]
    /\ \A m \in SignalMessages :
         Receivers(Relay_message(RelayWorld, c, m))
           \subseteq {RoomEntry(rooms, m.room)[m.to]}

\* connection 2 has just joined as offerer of R1, taking the slot from
\* connection 1, which is still open
LastWriteWinsWitness ==
  /\ relayLast.displaced = 1 /\ conns[1] = "OPEN" /\ conns[2] = "OPEN"
  /\ "R1" \in DOMAIN rooms /\ rooms["R1"]["offerer"] = 2

\* slots of the two named roles whose occupant's close event is still to come
LiveSlots ==
  {<<r, k>> \in (DOMAIN rooms) \X FixedRoles :
     rooms[r][k] # Null /\ conns[rooms[r][k]] \in {"OPEN", "CLOSING"}}

\* C12: a room that had both roles occupied stays in the map only while an
\* occupant of one of the two roles has not closed, and the stats endpoint
\* counts the rooms of the map and the occupants that have not closed.
RoomCleanup ==
  /\ \A r \in wasFull :
       r \in DOMAIN rooms /\ \E k \in FixedRoles : <<r, k>> \in LiveSlots
  /\ Stats(rooms).activeConnections = Cardinality(LiveSlots)
  /\ Stats(rooms).totalRooms = Cardinality(DOMAIN rooms)

\* room R1 had both roles occupied, the second of its occupants has just
\* closed, and the room is gone
RoomCleanupWitness ==
  /\ relayUp /\ relayLast.cleaned = {"R1"}
  /\ \A c \in 1..MaxConns : conns[c] = "CLOSED"
  /\ Stats(rooms) = [totalRooms |-> 0, activeConnections |-> 0]

\* C13: a room entry never holds more than two members.
RoomAtMostTwo ==
  \A r \in DOMAIN rooms :
    Cardinality({k \in RoleKeys : rooms[r][k] # Null}) <= 2

\* the slot a signal names has an occupant whose transport is open
Deliverable(m) ==
  LET target == RoomEntry(rooms, m.room)[m.to]
  IN target # Null /\ conns[target] = "OPEN"

\* C14: a signal addressed to a slot whose occupant is open hands exactly
\* one frame {type: signal, data} with the data of the message to that
\* occupant and nothing to any other connection.
ForwardExactlyOnce ==
  \A c \in Senders, m \in SignalMessages :
    Deliverable(m) =>
      LET rw == Relay_message(RelayWorld, c, m)
          target == rooms[m.room][m.to]
      IN /\ rw.outbox[target] = <<[type |-> "signal", data |-> m.data]>>
         /\ Receivers(rw) = {target}

\* connection 1 holds offerer and connection 2 answerer of R1, both open,
\* and the last step handed connection 2 one frame
ForwardExactlyOnceWitness ==
  /\ "R1" \in DOMAIN rooms
  /\ rooms["R1"]["offerer"] = 1 /\ rooms["R1"]["answerer"] = 2
  /\ conns[1] = "OPEN" /\ conns[2] = "OPEN"
  /\ outbox[2] = <<[type |-> "signal", data |-> <<"num", 2>>]>>
  /\ outbox[1] = <<>>

\* C15: a signal addressed to an empty slot, or to one whose occupant is not
\* open, is handed to nobody, leaves the room map as it was and does not
\* stop the relay.
SilentDrop ==
  \A c \in Senders, m \in SignalMessages :
    ~Deliverable(m) =>
      LET rw == Relay_message(RelayWorld, c, m)
      IN Receivers(rw) = {} /\ rw.rooms = rooms /\ rw.up

\* connection 1 is open; room R2 does not exist and the occupant of R1's
\* answerer slot is closing; the last step sent nothing
SilentDropWitness ==
  /\ 1 \in Senders
  /\ "R2" \notin DOMAIN rooms /\ "R1" \in DOMAIN rooms
  /\ rooms["R1"]["answerer"] = 2 /\ conns[2] = "CLOSING"
  /\ \A d \in ConnIds : outbox[d] = <<>>

\* C21: a connection the sweep terminated for not answering the previous
\* probe is, once its close event has run, in no slot of any room (so a
\* silent connection is out of its slots within two sweeps).
SweepEvictsFromEverySlot ==
  \A c \in reaped :
    conns[c] = "CLOSED" =>
      \A r \in DOMAIN rooms, k \in RoleKeys : rooms[r][k] # c

\* C22: every entry of the room map has a member whose close event has
\* not run; once all connections that joined are closed the map is empty.
NoRoomOutlivesMembers ==
  \A r \in DOMAIN rooms :
    \E k \in RoleKeys : rooms[r][k] # Null /\ conns[rooms[r][k]] # "CLOSED"

\* the room/role slots a connection occupies
SlotsOf(c) == {s \in (DOMAIN rooms) \X RoleKeys : rooms[s[1]][s[2]] = c}

\* C23: each connection occupies at most one room/role slot: a join by a
\* connection that holds a slot takes it out of the earlier slot.
OneSlotPerConnection == \A c \in ConnIds : Cardinality(SlotsOf(c)) <= 1

\* C24: a signal for room R is handed to a member of R only if the
\* connection it came from occupies a slot of R.
RoomIsolation ==
  \A c \in Senders, m \in SignalMessages :
    Receivers(Relay_message(RelayWorld, c, m)) # {}
      => \E k \in RoleKeys : RoomEntry(rooms, m.room)[k] = c

\* C32: the close of a connection, whether it was overwritten in a slot
\* before or not, leaves every slot another connection occupies to that
\* connection and leaves the room of that slot in the map.
CloseKeepsOtherSlots ==
  \A a \in Clients(RelayWorld), r \in DOMAIN rooms, k \in RoleKeys :
    rooms[r][k] \notin {Null, a} =>
      LET after == Relay_close(RelayWorld, a).rooms
      IN r \in DOMAIN after /\ after[r][k] = rooms[r][k]

\* the member has replaced a connection, every connection it lost had
\* joined before it was lost, and the relay has received the join of the
\* new one; the peer is connected on the connection it always had
Recovered(mb) ==
  /\ link[mb] # Null /\ JoinReceived(link[mb])
  /\ lost[mb] # {} /\ lost[mb] \cap unjoined = {}
  /\ link[Peer(mb)] # Null /\ lost[Peer(mb)] = {}

\* C33: once a member has replaced its connection and rejoined, a signal of
\* its peer that the relay receives is forwarded, once, to the member's
\* new connection and to no other, whether the relay has had the close of
\* the old connection yet or not.
RecoveryDelivers ==
  \A mb \in Members, n \in 1..MaxCalls :
    Recovered(mb) =>
      LET frame == Path_signalFrame(Peer(mb), <<"number", n>>)
          rw == Relay_message(RelayWorld, link[Peer(mb)], frame)
      IN rw.outbox = [c \in ConnIds |->
                        IF c = link[mb] THEN <<Forwarded(frame.data)>>
                        ELSE <<>>]

\* the answerer is on its second connection, whose join the relay received
\* before the close of the first, which it has not had yet; a payload the
\* offerer sent since has reached the answerer
RecoveryDeliversWitness ==
  /\ Recovered("answerer") /\ lost["answerer"] = {2} /\ conns[2] = "OPEN"
  /\ link["answerer"] = 3 /\ link["offerer"] = 1
  /\ called = << [from |-> "offerer", conn |-> 1] >>
  /\ got["answerer"] = << <<"number", 1>> >>

(* ======================= SignalingClient claims ======================== *)

\* C1: once close() has been called while a reconnect timer was pending,
\* no timer callback of the instance creates a WebSocket any more, in
\* whatever order the timer, the close event and close() occur.
CloseCancelsReconnect == closedPending => autoAfterClose = 0

\* a timer has expired after close() was called while it was pending
CloseCancelsReconnectWitness ==
  closedPending /\ lastOp = "timer" /\ ~sc.shouldReconnect

Has(seq, name) == Count(seq, name) > 0

\* C6: an open with a nonzero retry count emits onReconnected, an open
\* with retry count zero emits onOpen and no onReconnected.
ReconnectedOnReopen ==
  [][lastOp' = "open" =>
       IF sc.retryCount > 0
       THEN Has(emitted', "onReconnected")
       ELSE Has(emitted', "onOpen") /\ ~Has(emitted', "onReconnected")]_vars

\* C7: at most one WebSocket of the instance is connecting or open, and a
\* connect() made while one is connecting or open creates none.
AtMostOneTransport ==
  [][/\ Cardinality(LiveSockets(sockets')) <= 1
     /\ (lastOp' = "connect" /\ LiveSockets(sockets) # {}
           => attempts' = attempts)]_vars

\* C8: the delays handed to the reconnect timer without an open in between
\* never decrease and never exceed maxRetryDelay.
BackoffMonotoneCapped ==
  \A i \in 1..Len(delays) :
    /\ delays[i] <= sc.maxRetryDelay
    /\ (i > 1 => delays[i - 1] <= delays[i])

\* the delay the owner configured for the first retry
ConfiguredInitialDelay ==
  IF options.initialRetryDelay = Undefined THEN DefaultInitialRetryDelay
  ELSE options.initialRetryDelay

\* C9: the first reconnect after a successful open waits the configured
\* initialRetryDelay.
ResetToConfiguredInitial ==
  (everOpened /\ delays # <<>>) => delays[1] = ConfiguredInitialDelay

\* one connect() by the owner, no open, no close(): every attempt failed
AllAttemptsFail ==
  /\ userConnects = 1
  /\ ~everOpened
  /\ sc.shouldReconnect
  /\ options.maxRetries # Undefined

\* nothing is in flight: every WebSocket is closed and no timer is pending
Quiescent ==
  /\ timers = <<>>
  /\ \A s \in SocketIds : sockets[s] \in {"NONE", "CLOSED"}

\* C10: with maxRetries = N and every attempt failing there are never more
\* than N+1 attempts, onMaxRetriesReached is called at most once and only
\* after attempt N+1 has failed, and when nothing is left in flight it has
\* been called exactly once after exactly N+1 attempts.
MaxRetriesExhaustedOnce ==
  AllAttemptsFail =>
    /\ attempts <= options.maxRetries + 1
    /\ exhausted <= 1
    /\ (exhausted = 1 => attempts = options.maxRetries + 1 /\ Quiescent)
    /\ (Quiescent => exhausted = 1 /\ attempts = options.maxRetries + 1)

MaxRetriesExhaustedOnceWitness ==
  /\ AllAttemptsFail
  /\ options.maxRetries = 2
  /\ exhausted = 1
  /\ attempts = 3

\* C17: close() twice leaves the client as close() once does, and once
\* close() has been called (only close() clears shouldReconnect) no
\* WebSocket of the instance is connecting or open.
ClosedPermanently ==
  /\ close(close(World)) = close(World)
  /\ ~sc.shouldReconnect => LiveSockets(sockets) = {}

\* C19: an error event calls onError and nothing else, schedules no timer
\* and leaves the retry count and the backoff delay as they were.
ErrorDoesNotReconnect ==
  [][lastOp' = "error" =>
       /\ emitted' = << <<"onError">> >>
       /\ timers' = timers
       /\ sc'.retryCount = sc.retryCount
       /\ sc'.retryDelay = sc.retryDelay]_vars

\* an open WebSocket has just reported an error while reconnect is enabled
\* and no timer is pending
ErrorDoesNotReconnectWitness ==
  /\ lastOp = "error" /\ everOpened /\ sc.shouldReconnect
  /\ timers = <<>> /\ sc.retryCount = 0
  /\ emitted = << <<"onError">> >>

\* the onReconnecting calls among the callbacks of the last step
Announcements(evs) == {i \in 1..Len(evs) : evs[i][1] = "onReconnecting"}

\* C31: a step calls onReconnecting once for every timer it schedules, with
\* the number of retries scheduled since the last open (1 for the first)
\* and the delay of the timer it has just scheduled.
ReconnectAnnounced ==
  [][LET kept == Len(timers) - (IF lastOp' = "timer" THEN 1 ELSE 0)
     IN /\ Cardinality(Announcements(emitted')) = Len(timers') - kept
        /\ \A i \in Announcements(emitted') :
             emitted'[i] = <<"onReconnecting", Len(delays'),
                             timers'[Len(timers')]>>]_vars

\* the second retry after an open has just been scheduled with a delay
\* that carries jitter
ReconnectAnnouncedWitness ==
  /\ everOpened /\ lastOp = "closeEvent" /\ Len(delays) = 2
  /\ emitted = << <<"onClose">>, <<"onReconnecting", 2, 2999>> >>
  /\ timers # <<>> /\ timers[Len(timers)] = 2999

\* a close event has just scheduled a reconnect
RetryScheduled == lastOp = "closeEvent" /\ Has(emitted, "onReconnecting")

\* C34: while reconnect stays enabled, a close event that schedules a retry
\* is followed by a new connection attempt: the connect() of the timer
\* callback is not turned into a no-op by the guard.
CloseLeadsToAttempt ==
  \A n \in 0..(MaxSockets - 1) :
    (RetryScheduled /\ attempts = n)
      ~> (attempts > n \/ ~sc.shouldReconnect)

\* C35: at most one reconnect timer of the instance is pending, whatever
\* the owner's connect() calls and the transport events.
AtMostOneTimer == Len(timers) <= 1

\* C38: constructed with maxRetries = 0 the client never has a reconnect
\* timer, and a close event while reconnect is enabled calls
\* onMaxRetriesReached.
NoRetryAtZero ==
  options.maxRetries = 0 =>
    /\ timers = <<>>
    /\ (lastOp = "closeEvent" /\ sc.shouldReconnect)
         => Has(emitted, "onMaxRetriesReached")

\* connect() would pass its guard and evaluate `new WebSocket`
WouldCreate == ~sc.isConnecting /\ ~isConnected(World)

\* C20: a connect() whose `new WebSocket` throws leaves isConnecting false,
\* calls onError first, and then does to the retry count, the backoff
\* delay, the timers and the owner what the close handler does in the same
\* state after its onClose.
ThrowIsImmediateClose ==
  \A jitter \in Jitters, s \in SocketIds :
    WouldCreate =>
      LET thrown == connect(World, TRUE, jitter)
          closed == onclose(World, s, jitter)
      IN /\ ~thrown.sc.isConnecting
         /\ Head(thrown.emitted) = <<"onError">>
         /\ Head(closed.emitted) = <<"onClose">>
         /\ Tail(thrown.emitted) = Tail(closed.emitted)
         /\ thrown.sc.retryCount = closed.sc.retryCount
         /\ thrown.sc.retryDelay = closed.sc.retryDelay
         /\ thrown.timers = closed.timers
         /\ (sc.shouldReconnect /\ sc.retryCount < sc.maxRetries
               => /\ thrown.sc.retryCount = sc.retryCount + 1
                  /\ thrown.timers = Append(timers, sc.retryDelay)
                  /\ thrown.emitted[2] =
                       <<"onReconnecting", sc.retryCount + 1, sc.retryDelay>>)

\* the first connect() threw: the error was reported, attempt 1 announced
\* and its timer set with the initial delay
ThrowIsImmediateCloseWitness ==
  /\ lastOp = "connect" /\ attempts = 1
  /\ \A s \in SocketIds : sockets[s] = "NONE"
  /\ ~sc.isConnecting /\ sc.retryCount = 1
  /\ timers = <<DefaultInitialRetryDelay>>
  /\ emitted = << <<"onError">>,
                  <<"onReconnecting", 1, DefaultInitialRetryDelay>> >>

\* the number of times message n was handed to a WebSocket
Transmissions(n) ==
  Cardinality({<<s, i>> \in SocketIds \X (1..MaxSends + 1) :
                 i <= Len(sent[s]) /\ sent[s][i] = n})

\* C18: send() returns true exactly when this.ws is open; a message it
\* returned false for is never handed to a WebSocket, one it returned true
\* for exactly once; and a send() made while this.ws is not open leaves the
\* client as it was.
SendOnlyWhenOpen ==
  /\ lastOp = "sendTrue" => isConnected(World)
  /\ lastOp = "sendFalse" => ~isConnected(World)
  /\ \A n \in 1..sends :
       Transmissions(n) = IF n \in rejected THEN 0 ELSE 1
  /\ ~isConnected(World) => send(World, sends + 1) = World

\* message 1 was rejected while the client waited in backoff, the client
\* has reconnected since and message 2 has been sent on the new WebSocket
SendOnlyWhenOpenWitness ==
  /\ lastOp = "sendTrue" /\ rejected = {1} /\ sends = 2
  /\ sc.ws = 2 /\ sent[2] = <<2>> /\ sent[1] = <<>>
  /\ sockets[1] = "CLOSED"

\* the payloads of got[mb] as the numbers of the send() calls they came with
CallsGot(mb) == [i \in 1..Len(got[mb]) |-> got[mb][i][2]]

\* C16: the payload of a send() call reaches onSignal of the caller's peer
\* at most once, and of nobody else and not at all when send() returned
\* false; payloads written to the same connection reach the peer in the
\* order of their calls.
AtMostOnceInOrder ==
  \A mb \in Members :
    /\ \A i \in 1..Len(got[mb]) :
         /\ got[mb][i][1] = "number" /\ CallsGot(mb)[i] \in 1..Len(called)
         /\ called[CallsGot(mb)[i]].from = Peer(mb)
         /\ called[CallsGot(mb)[i]].conn # Null
    /\ \A i, j \in 1..Len(got[mb]) :
         i < j =>
           /\ CallsGot(mb)[i] # CallsGot(mb)[j]
           /\ (called[CallsGot(mb)[i]].conn = called[CallsGot(mb)[j]].conn
                 => CallsGot(mb)[i] < CallsGot(mb)[j])

\* the offerer sent two payloads on its connection and the answerer got
\* them, once each, in that order
AtMostOnceInOrderWitness ==
  /\ Len(called) = 2
  /\ \A n \in 1..2 : called[n] = [from |-> "offerer", conn |-> link["offerer"]]
  /\ link["offerer"] # Null /\ link["answerer"] # Null
  /\ got["answerer"] = << <<"number", 1>>, <<"number", 2>> >>
  /\ got["offerer"] = <<>>

====
